---------------------------- MODULE Spec2Model ----------------------------
(***************************************************************************)
(* A model of the grammar toolkit under src/Parsing: the Grammar value,   *)
(* FIRST/FOLLOW, the grammar transformations, and the LL(1), LR(0)/SLR(1) *)
(* and backtracking parsers.  Symbols are strings, a production body is a *)
(* sequence of symbols, and a Python dict is a record                     *)
(* [order, productions]: the keys in insertion order and the mapping.     *)
(***************************************************************************)
EXTENDS Integers, Sequences, FiniteSets, TLC

VARIABLES
    grammar,        \* the Grammar a parser or a transformation was given
    tokens,         \* parse(): the token list, end marker appended
    caller_tokens,  \* the list the caller passed to parse(), as it is now
    passed_tokens,  \* the same list, as it was when parse() was called
    pc,             \* position of the operation in progress
    first_sets,     \* LL1Parser.first_sets
    follow_sets,    \* LL1Parser.follow_sets / LRParser.follow_sets
    parsing_table,  \* LL1Parser.parsing_table
    stack,          \* parse(): the parse stack (LL(1) symbols, LR states)
    input_ptr,      \* parse(): index of the current token, 0-based
    trace,          \* parse(): the step records appended so far
    result,         \* parse(): what was returned: [returned, success, message]
    parser_type,    \* LRParser.parser_type
    states,         \* LRParser.states: the list of item sets
    goto_table,     \* LRParser.goto_table
    action_table,   \* LRParser.action_table
    conflicts,      \* LL1Parser.conflicts, LRParser.conflicts
    work,           \* LRParser: the loop variables of the construction in progress
    symbol_stack,   \* LRParser.parse: the symbol stack
    pos,            \* BacktrackingParser.pos
    frames,         \* BacktrackingParser: the calls in progress, innermost last
    ret,            \* BacktrackingParser: the value a call just returned, or "none"
    called,         \* the transformation that was called, "" for none
    productions_copy, \* the transformation's local dict `productions`
    transformed,    \* the Grammar the transformation returned
    owner,          \* whose objects the transformation's dict and its lists are
    text,           \* parse_grammar(): the text it was given, a sequence of characters
    raised,         \* parse_grammar(): the message of the ValueError it raised, "" for none
    issues,         \* validate_grammar(): the pair it returns
    reachable       \* validate_grammar(): its local set `reachable`

\* what only LL1Parser holds, and what only LRParser holds
ll_vars == <<first_sets, parsing_table>>
lr_vars == <<parser_type, states, goto_table, action_table, conflicts, work,
             symbol_stack>>

bt_vars == <<pos, frames, ret>>

\* what only the grammar transformations hold
caller_vars == <<caller_tokens, passed_tokens>>
xf_vars == <<called, productions_copy, transformed, owner>>

\* what only parse_grammar and validate_grammar hold
gp_vars == <<text, raised, issues, reachable>>

vars == <<grammar, tokens, caller_tokens, passed_tokens, pc, follow_sets, stack, input_ptr, trace, result,
          ll_vars, lr_vars, bt_vars, xf_vars, gp_vars>>

-----------------------------------------------------------------------------
(* Bounds of the model. *)

\* longest production body of an enumerated grammar
MaxBody == 2
\* most alternatives of the nonterminal of an enumerated grammar
MaxAlts == 2
\* longest token list handed to a parser (before the end marker is appended)
MaxTokens == 3
\* longest token list handed to LRParser.parse
MaxLRTokens == 2
\* LL1Parser.parse: the step records the model keeps (the later ones are dropped)
MaxLL1Trace == 12
\* LL1Parser.parse: the deepest parse stack the model follows
MaxLL1Stack == 8

EPS == "ε"
END == "$"

-----------------------------------------------------------------------------
(* Sequence helpers. *)

Range(s) == {s[i] : i \in DOMAIN s}

RECURSIVE Reverse(_)
Reverse(s) == IF s = <<>> THEN <<>> ELSE Append(Reverse(Tail(s)), Head(s))

RECURSIVE Concat(_)
Concat(ss) == IF ss = <<>> THEN <<>> ELSE Head(ss) \o Concat(Tail(ss))

Last(s) == s[Len(s)]

\* Python s[i:] for a 0-based i
From(s, i) == SubSeq(s, i + 1, Len(s))

-----------------------------------------------------------------------------
(* Grammar (grammar_parser.py). *)

\* the (nonterminal, body) pairs in the order of
\* "for nt, productions in grammar.productions.items(): for prod in productions"
ProdItems(order, productions) ==
    Concat([i \in 1..Len(order) |->
              [j \in 1..Len(productions[order[i]]) |->
                  <<order[i], productions[order[i]][j]>>]])

_compute_terminals(order, productions) ==
    { sym \in UNION { Range(pb[2]) : pb \in Range(ProdItems(order, productions)) } :
          sym \notin Range(order) /\ sym # EPS } \cup {END}

\* Grammar.__init__; start = "" stands for start_symbol=None
Grammar(order, productions, start) ==
    [ order        |-> order,
      productions  |-> productions,
      start_symbol |-> IF start = "" THEN order[1] ELSE start,
      nonterminals |-> Range(order),
      terminals    |-> _compute_terminals(order, productions) ]

is_terminal(g, symbol) == symbol \in g.terminals \/ symbol = EPS

is_nonterminal(g, symbol) == symbol \in g.nonterminals

Items(g) == ProdItems(g.order, g.productions)

-----------------------------------------------------------------------------
(* The grammars and token lists the operations are applied to. *)

Bodies(alphabet, n) == UNION { [1..k -> alphabet] : k \in 0..n }

AltLists(bodies, m) == UNION { [1..k -> bodies] : k \in 1..m }

\* every grammar with the one nonterminal S over the terminal a
EnumGrammars ==
    { Grammar(<<"S">>, [S |-> alts], "") :
        alts \in AltLists(Bodies({"S", "a"}, MaxBody), MaxAlts) }

\* S -> A a | b ; A -> A c | S d | ε   written G2(<<..>>, <<..>>)
G2(s, a) == Grammar(<<"S", "A">>, [S |-> s, A |-> a], "")

\* the DEFAULT_GRAMMAR of grammar_parser.py
DefaultGrammar ==
    Grammar(<<"E", "T">>,
            [E |-> << <<"T", "+", "E">>, <<"T">> >>,
             T |-> << <<"T", "*", "int">>, <<"int">>, <<"(", "E", ")">> >>], "")

NamedGrammars ==
    { DefaultGrammar,
      \* S -> a S b | ε
      Grammar(<<"S">>, [S |-> << <<"a", "S", "b">>, <<>> >>], ""),
      \* S -> a b | a | b
      Grammar(<<"S">>, [S |-> << <<"a", "b">>, <<"a">>, <<"b">> >>], ""),
      \* S -> a | a   (duplicate alternatives)
      Grammar(<<"S">>, [S |-> << <<"a">>, <<"a">> >>], ""),
      \* S -> a b | a b | a
      Grammar(<<"S">>, [S |-> << <<"a", "b">>, <<"a", "b">>, <<"a">> >>], ""),
      \* S -> A a | b ; A -> S b | a      (indirect left recursion)
      G2(<< <<"A", "a">>, <<"b">> >>, << <<"S", "b">>, <<"a">> >>),
      \* S -> A a | b ; A -> A b | S a | ε
      G2(<< <<"A", "a">>, <<"b">> >>, << <<"A", "b">>, <<"S", "a">>, <<>> >>),
      \* S -> A S | a ; A -> ε            (hidden left recursion)
      G2(<< <<"A", "S">>, <<"a">> >>, << <<>> >>),
      \* S -> A b ; A -> a | ε
      G2(<< <<"A", "b">> >>, << <<"a">>, <<>> >>),
      \* S -> A A ; A -> a | b
      G2(<< <<"A", "A">> >>, << <<"a">>, <<"b">> >>),
      \* S -> a A | a b ; A -> b | ε
      G2(<< <<"a", "A">>, <<"a", "b">> >>, << <<"b">>, <<>> >>),
      \* S -> a ; A -> b                  (A unreachable)
      G2(<< <<"a">> >>, << <<"b">> >>),
      \* S -> A ; A -> A                  (A derives nothing)
      G2(<< <<"A">> >>, << <<"A">> >>),
      \* S -> a $ b | a                   (the end marker inside a body)
      Grammar(<<"S">>, [S |-> << <<"a", END, "b">>, <<"a">> >>], ""),
      \* S -> ε a | b                     (the symbol ε inside a body)
      Grammar(<<"S">>, [S |-> << <<EPS, "a">>, <<"b">> >>], ""),
      \* S -> S a | b ; S' -> a           (the primed name is taken)
      Grammar(<<"S", "S'">>,
              [S |-> << <<"S", "a">>, <<"b">> >>] @@ ("S'" :> << <<"a">> >>), "") }

Grammars == EnumGrammars \cup NamedGrammars

TokenAlphabet == {"a", "b", END}

TokenLists == UNION { [1..k -> TokenAlphabet] : k \in 0..MaxTokens }

LRTokenLists == UNION { [1..k -> TokenAlphabet] : k \in 0..MaxLRTokens }

\* the backtracking parser gives "$" no special role: longer lists leave it out
BTTokenLists ==
    LRTokenLists \cup UNION { [1..k -> {"a", "b"}] : k \in 0..MaxTokens }

-----------------------------------------------------------------------------
(* FIRST and FOLLOW (first_follow.py). *)

\* the loop of lines 43-48 left after its first symbol
first_of_sequence_head(symbols, fs) ==
    IF symbols = <<>>
    THEN {EPS}
    ELSE IF Head(symbols) \in DOMAIN fs THEN fs[Head(symbols)] ELSE {Head(symbols)}

RECURSIVE first_of_sequence(_, _)
first_of_sequence(symbols, fs) ==
    IF symbols = <<>>
    THEN {EPS}
    ELSE LET symbol == Head(symbols)
             symbol_first == IF symbol \in DOMAIN fs THEN fs[symbol] ELSE {symbol}
         IN  IF EPS \notin symbol_first
             THEN symbol_first \ {EPS}
             ELSE (symbol_first \ {EPS}) \cup first_of_sequence(Tail(symbols), fs)

\* lines 8-17: the dict before the first pass
FirstInit(g) ==
    [ s \in g.terminals \cup g.nonterminals \cup {EPS} |->
        IF s = EPS THEN {EPS} ELSE IF s \in g.nonterminals THEN {} ELSE {s} ]

\* line 28 run for every production, not only for the empty one
FirstVisit_eps(st, nt, prod) ==
    LET old == st.first[nt]
        new == (old \cup {EPS}) \cup first_of_sequence(prod, st.first)
    IN  [ first   |-> [st.first EXCEPT ![nt] = new],
          changed |-> st.changed \/ Cardinality(new) > Cardinality(old) ]

\* lines 25-34: one production visited; st = [first, changed]
FirstVisit(st, nt, prod) ==
    LET old   == st.first[nt]
        new   == IF prod = <<>> THEN old \cup {EPS}
                 ELSE old \cup first_of_sequence(prod, st.first)
    IN  [ first   |-> [st.first EXCEPT ![nt] = new],
          changed |-> st.changed \/ Cardinality(new) > Cardinality(old) ]

\* lines 23-34: one pass of the while loop over the productions in `items`
RECURSIVE FirstPass(_, _)
FirstPass(items, st) ==
    IF items = <<>> THEN st
    ELSE FirstPass(Tail(items), FirstVisit(st, Head(items)[1], Head(items)[2]))

\* the while loop of lines 19-34 run for one pass only
FirstLoop_once(g, first) ==
    FirstPass(Items(g), [first |-> first, changed |-> FALSE]).first

RECURSIVE FirstLoop(_, _)
FirstLoop(g, first) ==
    LET st == FirstPass(Items(g), [first |-> first, changed |-> FALSE])
    IN  IF st.changed THEN FirstLoop(g, st.first) ELSE st.first

compute_first_sets(g) == FirstLoop(g, FirstInit(g))

\* lines 58-59
FollowInit(g) ==
    [ nt \in g.nonterminals |-> IF nt = g.start_symbol THEN {END} ELSE {} ]

\* line 83 without "- {'ε'}": FIRST of the rest is added as it is
FollowVisit_witheps(g, fs, st, nt, prod, i) ==
    LET symbol == prod[i] IN
    IF ~ is_nonterminal(g, symbol) THEN st
    ELSE LET old  == st.follow[symbol]
             rest == SubSeq(prod, i + 1, Len(prod))
             first_rest == first_of_sequence(rest, fs)
             new  == IF rest = <<>>
                     THEN old \cup st.follow[nt]
                     ELSE IF EPS \in first_rest
                          THEN (old \cup first_rest) \cup st.follow[nt]
                          ELSE old \cup first_rest
         IN  [ follow  |-> [st.follow EXCEPT ![symbol] = new],
               changed |-> st.changed \/ Cardinality(new) > Cardinality(old) ]

\* lines 77-79 left out: a nonterminal at the end of a body gets nothing
FollowVisit_nolast(g, fs, st, nt, prod, i) ==
    LET symbol == prod[i] IN
    IF ~ is_nonterminal(g, symbol) \/ i = Len(prod) THEN st
    ELSE LET old  == st.follow[symbol]
             first_rest == first_of_sequence(SubSeq(prod, i + 1, Len(prod)), fs)
             new  == IF EPS \in first_rest
                     THEN (old \cup (first_rest \ {EPS})) \cup st.follow[nt]
                     ELSE old \cup (first_rest \ {EPS})
         IN  [ follow  |-> [st.follow EXCEPT ![symbol] = new],
               changed |-> st.changed \/ Cardinality(new) > Cardinality(old) ]

\* lines 69-90: position i of production nt -> prod; st = [follow, changed]
FollowVisit(g, fs, st, nt, prod, i) ==
    LET symbol == prod[i] IN
    IF ~ is_nonterminal(g, symbol) THEN st
    ELSE LET old  == st.follow[symbol]
             rest == SubSeq(prod, i + 1, Len(prod))
             first_rest == first_of_sequence(rest, fs)
             new  == IF rest = <<>>
                     THEN old \cup st.follow[nt]
                     ELSE IF EPS \in first_rest
                          THEN (old \cup (first_rest \ {EPS})) \cup st.follow[nt]
                          ELSE old \cup (first_rest \ {EPS})
         IN  [ follow  |-> [st.follow EXCEPT ![symbol] = new],
               changed |-> st.changed \/ Cardinality(new) > Cardinality(old) ]

RECURSIVE FollowProd(_, _, _, _, _, _)
FollowProd(g, fs, st, nt, prod, i) ==
    IF i > Len(prod) THEN st
    ELSE FollowProd(g, fs, FollowVisit(g, fs, st, nt, prod, i), nt, prod, i + 1)

RECURSIVE FollowPass(_, _, _, _)
FollowPass(g, fs, items, st) ==
    IF items = <<>> THEN st
    ELSE FollowPass(g, fs, Tail(items),
                    FollowProd(g, fs, st, Head(items)[1], Head(items)[2], 1))

RECURSIVE FollowLoop(_, _, _)
FollowLoop(g, fs, follow) ==
    LET st == FollowPass(g, fs, Items(g), [follow |-> follow, changed |-> FALSE])
    IN  IF st.changed THEN FollowLoop(g, fs, st.follow) ELSE st.follow

compute_follow_sets(g, fs) == FollowLoop(g, fs, FollowInit(g))

-----------------------------------------------------------------------------
(* LL1Parser (ll1_parser.py): the table. *)

\* lines 26-29 and 35-38: prod appended to the cell of every key in keys
AddEntries(table, keys, prod) ==
    [ k \in DOMAIN table \cup keys |->
        IF k \in keys
        THEN IF k \in DOMAIN table THEN Append(table[k], prod) ELSE <<prod>>
        ELSE table[k] ]

\* lines 32-38 left out: a production is registered under FIRST only
TableVisit_nofollow(fs, fo, table, nt, prod) ==
    AddEntries(table, {<<nt, t>> : t \in first_of_sequence(prod, fs) \ {EPS}}, prod)

\* lines 19-38: one production registered
TableVisit(fs, fo, table, nt, prod) ==
    LET first_prod == first_of_sequence(prod, fs)
        t1 == AddEntries(table, {<<nt, t>> : t \in first_prod \ {EPS}}, prod)
    IN  IF EPS \in first_prod
        THEN AddEntries(t1, {<<nt, t>> : t \in fo[nt]}, prod)
        ELSE t1

RECURSIVE TableFill(_, _, _, _)
TableFill(fs, fo, items, table) ==
    IF items = <<>> THEN table
    ELSE TableFill(fs, fo, Tail(items),
                   TableVisit(fs, fo, table, Head(items)[1], Head(items)[2]))

_build_parsing_table(g, fs, fo) == TableFill(fs, fo, Items(g), <<>>)

Orderings(S) ==
    { f \in [1..Cardinality(S) -> S] : \A i, j \in DOMAIN f : f[i] = f[j] => i = j }

\* line 47: ' '.join(p)
RECURSIVE Join(_)
Join(p) ==
    IF p = <<>> THEN ""
    ELSE IF Len(p) = 1 THEN p[1]
    ELSE p[1] \o " " \o Join(Tail(p))

\* line 47: ' '.join(p) if p else 'ε'
ProdStr(p) == IF p = <<>> THEN EPS ELSE Join(p)

\* the text Python prints for a list of strings
RECURSIVE ListRepr(_)
ListRepr(strs) ==
    IF strs = <<>> THEN ""
    ELSE "'" \o Head(strs) \o "'" \o
         (IF Len(strs) = 1 THEN "" ELSE ", " \o ListRepr(Tail(strs)))

\* lines 49-51: the message of one cell
ConflictMessage(key, prods) ==
    "Conflict at (" \o key[1] \o ", " \o key[2] \o "): multiple productions ["
        \o ListRepr([i \in DOMAIN prods |-> ProdStr(prods[i])]) \o "]"

\* when _build_parsing_table created the key: the position in Items(g) of the
\* first production registered under it, and whether by FIRST (0) or by
\* FOLLOW (1).  The dict keeps its keys in this order; keys created by one
\* "for terminal in <set>" loop come in any order.
KeyRank(g, fs, key) ==
    LET items == Items(g)
        k == CHOOSE n \in DOMAIN items :
                /\ items[n][1] = key[1]
                /\ key[2] \in first_of_sequence(items[n][2], fs) \cup
                       (IF EPS \in first_of_sequence(items[n][2], fs)
                        THEN compute_follow_sets(g, fs)[key[1]] ELSE {})
                /\ \A m \in 1..(n - 1) :
                      ~ ( /\ items[m][1] = key[1]
                          /\ key[2] \in first_of_sequence(items[m][2], fs) \cup
                                 (IF EPS \in first_of_sequence(items[m][2], fs)
                                  THEN compute_follow_sets(g, fs)[key[1]] ELSE {}) )
    IN  2 * k + (IF key[2] \in first_of_sequence(items[k][2], fs) THEN 0 ELSE 1)

\* line 45 asking for more than two productions
_detect_conflicts_three(g, fs, table) ==
    LET many == { key \in DOMAIN table : Len(table[key]) > 2 }
    IN  { [i \in DOMAIN f |-> ConflictMessage(f[i], table[f[i]])] :
            f \in { o \in Orderings(many) :
                      \A i, j \in DOMAIN o :
                          i < j => KeyRank(g, fs, o[i]) <= KeyRank(g, fs, o[j]) } }

\* lines 42-53: the messages _detect_conflicts may return, one list for every
\* order in which the dict may hold the keys
_detect_conflicts(g, fs, table) ==
    LET many == { key \in DOMAIN table : Len(table[key]) > 1 }
    IN  { [i \in DOMAIN f |-> ConflictMessage(f[i], table[f[i]])] :
            f \in { o \in Orderings(many) :
                      \A i, j \in DOMAIN o :
                          i < j => KeyRank(g, fs, o[i]) <= KeyRank(g, fs, o[j]) } }

\* lines 55-56
is_ll1 == Len(conflicts) = 0

-----------------------------------------------------------------------------
(* LL1Parser.parse (ll1_parser.py lines 58-117). *)

NoMessage == [kind |-> "None", position |-> 0, symbols |-> <<>>, expected |-> {}]

\* lines 119-124
_get_expected_tokens(table, nonterminal) ==
    { k[2] : k \in { kk \in DOMAIN table : kk[1] = nonterminal } }

\* lines 126-127
_error_message(expected, got, position) ==
    [kind |-> "Parse error: expected, got", position |-> position,
     symbols |-> <<expected, got>>, expected |-> {}]

\* lines 129-133
_error_message_with_expected(got, position, expected) ==
    [kind |-> "Parse error: unexpected token", position |-> position,
     symbols |-> <<got>>, expected |-> expected]

\* lines 60-61 of ll1_parser.py, 195-196 of lr_parser.py
WithEndMarker(toks) ==
    IF toks = <<>> \/ Last(toks) # END THEN Append(toks, END) ELSE toks

\* the list passed, after tokens.append('$') on it
CallerList_append(toks) == WithEndMarker(toks)

\* the list passed, after "tokens = tokens + ['$']": the sum is a new list
\* bound to the local name, the list passed stays as it was
CallerList(toks) == toks

\* the variables of the parsers a specification does not run
LLUnused == first_sets = <<>> /\ parsing_table = <<>>

LRUnused ==
    /\ parser_type = ""
    /\ states = <<>>
    /\ goto_table = <<>>
    /\ action_table = <<>>
    /\ conflicts = <<>>
    /\ work = <<>>
    /\ symbol_stack = <<>>

BTUnused == pos = 0 /\ frames = <<>> /\ ret = "none"

XFUnused == called = "" /\ productions_copy = <<>> /\ transformed = <<>> /\ owner = <<>>

GPUnused == text = <<>> /\ raised = "" /\ issues = <<>> /\ reachable = {}

NotReturned == [returned |-> FALSE, success |-> FALSE, message |-> NoMessage]

Returned(success, message) ==
    [returned |-> TRUE, success |-> success, message |-> message]

\* the constructor, lines 7-12
LL1Init ==
    \E g \in Grammars :
        /\ grammar = g
        /\ first_sets = compute_first_sets(g)
        /\ follow_sets = compute_follow_sets(g, compute_first_sets(g))
        /\ parsing_table =
              _build_parsing_table(g, compute_first_sets(g),
                                   compute_follow_sets(g, compute_first_sets(g)))
        /\ pc = "idle"
        /\ tokens = <<>>
        /\ caller_tokens = <<>>
        /\ passed_tokens = <<>>
        /\ stack = <<>>
        /\ input_ptr = 0
        /\ trace = <<>>
        /\ result = NotReturned
        /\ conflicts \in _detect_conflicts(g, compute_first_sets(g),
                  _build_parsing_table(g, compute_first_sets(g),
                                       compute_follow_sets(g, compute_first_sets(g))))
        /\ parser_type = ""
        /\ states = <<>>
        /\ goto_table = <<>>
        /\ action_table = <<>>
        /\ work = <<>>
        /\ symbol_stack = <<>>
        /\ BTUnused
        /\ XFUnused
        /\ GPUnused

\* lines 60-65: parse(toks) is entered
LL1Enter(toks) ==
    /\ pc \in {"idle", "returned", "cut"}
    /\ tokens' = WithEndMarker(toks)
    /\ passed_tokens' = toks
    /\ caller_tokens' = CallerList(toks)
    /\ stack' = <<END, grammar.start_symbol>>
    /\ trace' = <<>>
    /\ input_ptr' = 0
    /\ result' = NotReturned
    /\ pc' = "parsing"
    /\ UNCHANGED <<grammar, first_sets, follow_sets, parsing_table, lr_vars, bt_vars, xf_vars, gp_vars>>

LL1Begin == \E toks \in TokenLists : LL1Enter(toks)

\* lines 72-77; `later` is not a key of the step: it counts, modulo 2, the
\* records appended after the last one the model keeps
LL1StepRecord(action, production) ==
    [stack |-> stack, input |-> From(tokens, input_ptr),
     action |-> action, production |-> production, later |-> 0]

\* trace.append(step); the model keeps the first MaxLL1Trace records and, in
\* the last of them, the parity of the number of later ones
LL1Record(tr, step) ==
    IF Len(tr) < MaxLL1Trace THEN Append(tr, step)
    ELSE [tr EXCEPT ![MaxLL1Trace].later = 1 - @]

\* lines 67-115: one iteration of "while stack"
LL1Step ==
    /\ pc = "parsing"
    /\ stack # <<>>
    /\ LET top     == Last(stack)
           current == IF input_ptr < Len(tokens) THEN tokens[input_ptr + 1] ELSE END
           popped  == SubSeq(stack, 1, Len(stack) - 1)
       IN  IF top = current
           THEN /\ stack' = popped
                /\ input_ptr' = input_ptr + 1
                /\ trace' = LL1Record(trace, LL1StepRecord(<<"Match", top>>, <<>>))
                /\ UNCHANGED <<pc, result>>
           ELSE IF is_terminal(grammar, top)
           THEN /\ trace' = LL1Record(trace,
                        LL1StepRecord(<<"Error: expected, got", top, current>>, <<>>))
                /\ result' = Returned(FALSE, _error_message(top, current, input_ptr))
                /\ pc' = "returned"
                /\ UNCHANGED <<stack, input_ptr>>
           ELSE IF is_nonterminal(grammar, top)
           THEN IF <<top, current>> \notin DOMAIN parsing_table
                THEN /\ trace' = LL1Record(trace,
                             LL1StepRecord(<<"Error: no entry for", top, current>>, <<>>))
                     /\ result' = Returned(FALSE,
                             _error_message_with_expected(current, input_ptr,
                                 _get_expected_tokens(parsing_table, top)))
                     /\ pc' = "returned"
                     /\ UNCHANGED <<stack, input_ptr>>
                ELSE LET prod == parsing_table[<<top, current>>][1]
                     IN  /\ stack' = popped \o Reverse(prod)
                         /\ trace' = LL1Record(trace,
                                LL1StepRecord(<<"Apply", top>>, <<top, prod>>))
                         \* a stack deeper than MaxLL1Stack is not followed
                         /\ pc' = IF Len(popped) + Len(prod) > MaxLL1Stack
                                  THEN "cut" ELSE pc
                         /\ UNCHANGED <<input_ptr, result>>
           ELSE /\ trace' = LL1Record(trace,
                        LL1StepRecord(<<"Error: unknown symbol", top>>, <<>>))
                /\ result' = Returned(FALSE,
                        [kind |-> "Unknown symbol", position |-> 0,
                         symbols |-> <<top>>, expected |-> {}])
                /\ pc' = "returned"
                /\ UNCHANGED <<stack, input_ptr>>
    /\ UNCHANGED <<grammar, tokens, caller_vars, first_sets, follow_sets, parsing_table, lr_vars, bt_vars, xf_vars, gp_vars>>

\* line 117: the loop is left with an empty stack
LL1Accept ==
    /\ pc = "parsing"
    /\ stack = <<>>
    /\ result' = Returned(TRUE, NoMessage)
    /\ pc' = "returned"
    /\ UNCHANGED <<grammar, tokens, caller_vars, first_sets, follow_sets, parsing_table,
                   stack, input_ptr, trace, lr_vars, bt_vars, xf_vars, gp_vars>>

LL1Next == LL1Begin \/ LL1Step \/ LL1Accept

\* the loop of parse() runs on: nothing suspends it
SpecLL1 == LL1Init /\ [][LL1Next]_vars /\ WF_vars(LL1Step \/ LL1Accept)

-----------------------------------------------------------------------------
(* Claims about LL1Parser.parse. *)

(* C1: every call of LL1Parser.parse returns, with acceptance or with an   *)
(* error, after finitely many steps.  A run whose stack the model stops    *)
(* following (pc = "cut") is not counted against the claim.                *)
C1_LL1ParseTerminates == (pc = "parsing") ~> (pc \in {"returned", "cut"})

(* C2: when LL1Parser.parse returns success the stack is empty and the     *)
(* input pointer equals the length of the token list with its end marker.  *)
C2_LL1SuccessConsumesAll ==
    (pc = "returned" /\ result.success) =>
        (stack = <<>> /\ input_ptr = Len(tokens))

-----------------------------------------------------------------------------
(* LRParser (lr_parser.py): items, closure, goto, augmentation. *)

\* the step bound of LRParser.parse
LRMaxSteps == 1000

ParserTypes == {"LR(0)", "SLR(1)"}

LRItem(lhs, rhs, dot) == [lhs |-> lhs, rhs |-> rhs, dot |-> dot]

is_complete(item) == item.dot >= Len(item.rhs)

\* next_symbol(); "" stands for None
next_symbol(item) == IF is_complete(item) THEN "" ELSE item.rhs[item.dot + 1]

\* lines 49-51 without the while loop: the name with one prime, used or not
FreshName_first(name, keys) == name

\* lines 49-51 (and grammar_transforms.py 48-50, 88-90): the first unused primed name
RECURSIVE FreshName(_, _)
FreshName(name, keys) ==
    IF name \in keys THEN FreshName(name \o "'", keys) ELSE name

\* the grammar handed on as it is
_augment_grammar_none(g) == g

\* lines 48-57
_augment_grammar(g) ==
    LET new_start == FreshName(g.start_symbol \o "'", g.nonterminals)
    IN  Grammar(Append(g.order, new_start),
                g.productions @@ (new_start :> << <<g.start_symbol>> >>),
                new_start)

\* lines 66-74: one sweep of "for item in list(closure)"
ClosureSweep(g, closure) ==
    closure \cup
    UNION { { LRItem(next_symbol(item), prod, 0) :
                prod \in Range(g.productions[next_symbol(item)]) } :
            item \in { it \in closure :
                         /\ next_symbol(it) # ""
                         /\ is_nonterminal(g, next_symbol(it)) } }

\* lines 61-76 with the loop left after its first round
_closure_once(g, items) == ClosureSweep(g, items)

\* lines 59-76
RECURSIVE _closure(_, _)
_closure(g, items) ==
    LET closure == ClosureSweep(g, items)
    IN  IF closure = items THEN items ELSE _closure(g, closure)

\* lines 78-86, returning `moved` as it is
_goto_moved(g, items, symbol) ==
    { LRItem(item.lhs, item.rhs, item.dot + 1) :
        item \in { it \in items : next_symbol(it) = symbol } }

\* lines 78-88
_goto(g, items, symbol) ==
    _closure(g, { LRItem(item.lhs, item.rhs, item.dot + 1) :
                    item \in { it \in items : next_symbol(it) = symbol } })

\* list.index that finds nothing
StateIndex_missing(sts, st) == -1

\* list.index: the 0-based index of the first state equal to st, or -1
StateIndex(sts, st) ==
    IF \E i \in 1..Len(sts) : sts[i] = st
    THEN (CHOOSE i \in 1..Len(sts) :
              sts[i] = st /\ \A j \in 1..(i - 1) : sts[j] # st) - 1
    ELSE -1

\* lines 171-178; -1 when the production is not in the grammar
_get_production_number(g, lhs, rhs) ==
    LET items == Items(g) IN
    IF \E i \in 1..Len(items) : items[i] = <<lhs, rhs>>
    THEN (CHOOSE i \in 1..Len(items) :
              items[i] = <<lhs, rhs>> /\ \A j \in 1..(i - 1) : items[j] # <<lhs, rhs>>) - 1
    ELSE -1

Shift(next_state) == [kind |-> "shift", n |-> next_state, lhs |-> "", rhs |-> <<>>]
Accept == [kind |-> "accept", n |-> -1, lhs |-> "", rhs |-> <<>>]
Reduce(prod_num, lhs, rhs) == [kind |-> "reduce", n |-> prod_num, lhs |-> lhs, rhs |-> rhs]

\* lines 148-156 with the LR(0) branch taken in both modes
ItemActions_everywhere(g, mode, fo, gt, state_idx, item) ==
    IF ~ is_complete(item)
    THEN IF is_terminal(g, next_symbol(item)) /\ <<state_idx, next_symbol(item)>> \in DOMAIN gt
         THEN { <<<<state_idx, next_symbol(item)>>, Shift(gt[<<state_idx, next_symbol(item)>>])>> }
         ELSE {}
    ELSE IF item.lhs = g.start_symbol
         THEN { <<<<state_idx, END>>, Accept>> }
         ELSE { <<<<state_idx, terminal>>,
                  Reduce(_get_production_number(g, item.lhs, item.rhs), item.lhs, item.rhs)>> :
                terminal \in g.terminals }

\* lines 131-156: the (key, action) registrations one item of state_idx asks for
ItemActions(g, mode, fo, gt, state_idx, item) ==
    IF ~ is_complete(item)
    THEN IF is_terminal(g, next_symbol(item)) /\ <<state_idx, next_symbol(item)>> \in DOMAIN gt
         THEN { <<<<state_idx, next_symbol(item)>>, Shift(gt[<<state_idx, next_symbol(item)>>])>> }
         ELSE {}
    ELSE IF item.lhs = g.start_symbol
         THEN { <<<<state_idx, END>>, Accept>> }
         ELSE { <<<<state_idx, terminal>>,
                  Reduce(_get_production_number(g, item.lhs, item.rhs), item.lhs, item.rhs)>> :
                terminal \in (IF mode = "LR(0)" THEN g.terminals ELSE fo[item.lhs]) }

\* line 169 run for an occupied cell too: the later action replaces the earlier
AddActionsTable_overwrite(table, regs) ==
    [ k \in DOMAIN table \cup { r[1] : r \in regs } |->
        IF k \in { r[1] : r \in regs } THEN (CHOOSE r \in regs : r[1] = k)[2]
        ELSE table[k] ]

\* lines 158-169: _add_action for each registration of regs (their keys differ)
AddActionsTable(table, regs) ==
    [ k \in DOMAIN table \cup { r[1] : r \in regs } |->
        IF k \in DOMAIN table THEN table[k]
        ELSE (CHOOSE r \in regs : r[1] = k)[2] ]

ConflictOf(table, r) ==
    [state |-> r[1][1], symbol |-> r[1][2], existing |-> table[r[1]], new |-> r[2]]

\* lines 159-167 recording only a reduce that finds the cell taken
Conflicting_reduce(table, regs) ==
    { r \in regs : r[1] \in DOMAIN table /\ table[r[1]] # r[2] /\ r[2].kind = "reduce" }

\* the registrations of regs that _add_action records as conflicts
Conflicting(table, regs) ==
    { r \in regs : r[1] \in DOMAIN table /\ table[r[1]] # r[2] }

\* lines 180-181
has_conflicts == Len(conflicts) > 0

-----------------------------------------------------------------------------
(* LRParser.__init__: the automaton and the tables, one loop step at a time. *)
(* A Python set is iterated in an order the code does not control: every     *)
(* "for x in <set>" takes its elements in any order.                         *)

\* the grammars an LRParser is built for
LRGrammars == Grammars \ {DefaultGrammar}

\* lines 33-45 and 92-97: up to the first test of "while unmarked"
LRConstruct(g, mode) ==
        LET ag == _augment_grammar(g)
            start_prod == ag.productions[ag.start_symbol][1]
        IN  /\ grammar = ag
            /\ parser_type = mode
            /\ follow_sets = IF mode = "SLR(1)"
                             THEN compute_follow_sets(ag, compute_first_sets(ag))
                             ELSE <<>>
            /\ states = << _closure(ag, {LRItem(ag.start_symbol, start_prod, 0)}) >>
            /\ work = [unmarked |-> <<0>>, state_idx |-> -1, todo |-> {}]
            /\ goto_table = <<>>
            /\ action_table = <<>>
            /\ conflicts = <<>>
            /\ symbol_stack = <<>>
            /\ pc = "automaton"
            /\ tokens = <<>>
            /\ caller_tokens = <<>>
            /\ passed_tokens = <<>>
            /\ stack = <<>>
            /\ input_ptr = 0
            /\ trace = <<>>
            /\ result = NotReturned
            /\ LLUnused
            /\ BTUnused
            /\ XFUnused
            /\ GPUnused

LRInit == \E g \in LRGrammars, mode \in ParserTypes : LRConstruct(g, mode)

\* lines 103-108 collecting the terminals after the dots only
symbols_after_dots_terminals(state) ==
    { sym \in { next_symbol(item) : item \in state } \ {""} : is_terminal(grammar, sym) }

\* lines 103-108 with the loop left at the first symbol found
symbols_after_dots_first(state) ==
    LET found == { next_symbol(item) : item \in state } \ {""}
    IN  IF found = {} THEN {} ELSE {CHOOSE sym \in found : TRUE}

\* lines 103-108: the symbols after the dots of the state
symbols_after_dots(state) == { next_symbol(item) : item \in state } \ {""}

\* lines 99-108: the next unmarked state and the symbols after its dots
LRAutoPop ==
    /\ pc = "automaton"
    /\ work.todo = {}
    /\ work.unmarked # <<>>
    /\ work' = [unmarked  |-> Tail(work.unmarked),
                state_idx |-> Head(work.unmarked),
                todo      |-> symbols_after_dots(states[Head(work.unmarked) + 1])]
    /\ UNCHANGED <<grammar, tokens, caller_vars, pc, follow_sets, stack, input_ptr, trace, result,
                   ll_vars, bt_vars, xf_vars, gp_vars, parser_type, states, goto_table, action_table, conflicts,
                   symbol_stack>>

\* lines 111-125: Goto of the state for one of its symbols
LRAutoGoto ==
    /\ pc = "automaton"
    /\ work.todo # {}
    /\ \E symbol \in work.todo :
          LET new_state == _goto(grammar, states[work.state_idx + 1], symbol)
              found     == StateIndex(states, new_state)
              new_idx   == IF found = -1 THEN Len(states) ELSE found
          IN  IF new_state = {}
              THEN /\ work' = [work EXCEPT !.todo = @ \ {symbol}]
                   /\ UNCHANGED <<states, goto_table>>
              ELSE /\ states' = IF found = -1 THEN Append(states, new_state) ELSE states
                   /\ work' = [work EXCEPT
                                 !.todo = @ \ {symbol},
                                 !.unmarked = IF found = -1 THEN Append(@, new_idx) ELSE @]
                   /\ goto_table' = [ k \in DOMAIN goto_table \cup {<<work.state_idx, symbol>>} |->
                                        IF k = <<work.state_idx, symbol>> THEN new_idx
                                        ELSE goto_table[k] ]
    /\ UNCHANGED <<grammar, tokens, caller_vars, pc, follow_sets, stack, input_ptr, trace, result,
                   ll_vars, bt_vars, xf_vars, gp_vars, parser_type, action_table, conflicts, symbol_stack>>

\* line 46 and 128-129: _build_automaton returns, _build_tables starts at state 0
LRBuildTables ==
    /\ pc = "automaton"
    /\ work.todo = {}
    /\ work.unmarked = <<>>
    /\ pc' = "tables"
    /\ work' = [unmarked |-> <<>>, state_idx |-> 0, todo |-> states[1]]
    /\ UNCHANGED <<grammar, tokens, caller_vars, follow_sets, stack, input_ptr, trace, result,
                   ll_vars, bt_vars, xf_vars, gp_vars, parser_type, states, goto_table, action_table, conflicts,
                   symbol_stack>>

\* lines 128-156: one item of the state registered; after the last item of a
\* state the next state is taken, after the last state the constructor returns
LRTableItem ==
    /\ pc = "tables"
    /\ \E item \in work.todo :
          LET regs == ItemActions(grammar, parser_type, follow_sets, goto_table,
                                  work.state_idx, item)
              rest == work.todo \ {item}
              last == work.state_idx + 1 = Len(states)
          IN  /\ action_table' = AddActionsTable(action_table, regs)
              /\ \E ord \in Orderings(Conflicting(action_table, regs)) :
                    conflicts' = conflicts \o
                        [i \in 1..Len(ord) |-> ConflictOf(action_table, ord[i])]
              /\ work' = IF rest # {} THEN [work EXCEPT !.todo = rest]
                         ELSE IF last THEN [work EXCEPT !.todo = {}]
                         ELSE [work EXCEPT !.state_idx = @ + 1,
                                           !.todo = states[work.state_idx + 2]]
              /\ pc' = IF rest = {} /\ last THEN "idle" ELSE pc
    /\ UNCHANGED <<grammar, tokens, caller_vars, follow_sets, stack, input_ptr, trace, result,
                   ll_vars, bt_vars, xf_vars, gp_vars, parser_type, states, goto_table, symbol_stack>>

-----------------------------------------------------------------------------
(* LRParser.parse (lr_parser.py lines 192-259). *)

\* line 197 as 'stack = []': the state stack begins without state 0
LREnter_empty(toks) ==
    /\ pc \in {"idle", "returned"}
    /\ tokens' = WithEndMarker(toks)
    /\ passed_tokens' = toks
    /\ caller_tokens' = CallerList(toks)
    /\ stack' = <<>>
    /\ symbol_stack' = <<>>
    /\ trace' = <<>>
    /\ input_ptr' = 0
    /\ result' = NotReturned
    /\ pc' = "parsing"
    /\ UNCHANGED <<grammar, follow_sets, ll_vars, bt_vars, xf_vars, gp_vars, parser_type, states, goto_table,
                   action_table, conflicts, work>>

\* lines 195-200: parse(toks) is entered
LREnter(toks) ==
    /\ pc \in {"idle", "returned"}
    /\ tokens' = WithEndMarker(toks)
    /\ passed_tokens' = toks
    /\ caller_tokens' = CallerList(toks)
    /\ stack' = <<0>>
    /\ symbol_stack' = <<>>
    /\ trace' = <<>>
    /\ input_ptr' = 0
    /\ result' = NotReturned
    /\ pc' = "parsing"
    /\ UNCHANGED <<grammar, follow_sets, ll_vars, bt_vars, xf_vars, gp_vars, parser_type, states, goto_table,
                   action_table, conflicts, work>>

LRBegin == \E toks \in LRTokenLists : LREnter(toks)

\* line 209 as 'input': tokens, the whole list and not what is left of it
LRStepRecord_all(action, arg) ==
    [state |-> Last(stack), height |-> Len(stack), symbols |-> Len(symbol_stack),
     input_ptr |-> 0, action |-> action, arg |-> arg]

\* lines 206-211 and the step['action'] set later: the step record.  Of the
\* copies of the two stacks the record keeps the top state and the heights, of
\* tokens[input_ptr:] the index it starts at, of the action text its kind and
\* the state or production number in it (-1 when it names none).
LRStepRecord(action, arg) ==
    [state |-> Last(stack), height |-> Len(stack), symbols |-> Len(symbol_stack),
     input_ptr |-> input_ptr, action |-> action, arg |-> arg]

\* step['input'] of a record of the parse in progress
StepInput(step) == From(tokens, step.input_ptr)

\* lines 257-259: the safety check
ExceededSteps_typo(tr) == Len(tr) > 100

ExceededSteps(tr) == Len(tr) > LRMaxSteps

LRMessage(kind, position, symbols) ==
    [kind |-> kind, position |-> position, symbols |-> symbols, expected |-> {}]

\* lines 202-259: one iteration of "while True"
LRStep ==
    /\ pc = "parsing"
    /\ LET state   == Last(stack)
           current == IF input_ptr < Len(tokens) THEN tokens[input_ptr + 1] ELSE END
           key     == <<state, current>>
       IN  IF key \notin DOMAIN action_table
           THEN /\ trace' = Append(trace, LRStepRecord("Error: no action", -1))
                /\ result' = Returned(FALSE,
                        LRMessage("Parse error: unexpected", input_ptr, <<current>>))
                /\ pc' = "returned"
                /\ UNCHANGED <<stack, symbol_stack, input_ptr>>
           ELSE LET action == action_table[key] IN
                IF action.kind = "shift"
                THEN /\ stack' = Append(stack, action.n)
                     /\ symbol_stack' = Append(symbol_stack, current)
                     /\ input_ptr' = input_ptr + 1
                     /\ trace' = Append(trace, LRStepRecord("Shift", action.n))
                     /\ IF ExceededSteps(trace')
                        THEN /\ result' = Returned(FALSE,
                                    LRMessage("Parse exceeded maximum steps", 0, <<>>))
                             /\ pc' = "returned"
                        ELSE UNCHANGED <<result, pc>>
                ELSE IF action.kind = "reduce"
                THEN LET pop_count == Len(action.rhs)
                         \* stack.pop() on an empty list, or stack[-1] of one, raises
                         raises == pop_count >= Len(stack)
                         below  == SubSeq(stack, 1, Len(stack) - pop_count)
                         syms   == Append(
                                     SubSeq(symbol_stack, 1,
                                            IF pop_count > Len(symbol_stack) THEN 0
                                            ELSE Len(symbol_stack) - pop_count),
                                     action.lhs)
                     IN  IF raises
                         THEN /\ result' = Returned(FALSE,
                                     LRMessage("raised IndexError", 0, <<>>))
                              /\ pc' = "returned"
                              /\ UNCHANGED <<stack, symbol_stack, input_ptr, trace>>
                         ELSE IF <<Last(below), action.lhs>> \notin DOMAIN goto_table
                         THEN /\ stack' = below
                              /\ symbol_stack' = syms
                              /\ trace' = Append(trace,
                                     LRStepRecord("Reduce (Error: no goto)", action.n))
                              /\ result' = Returned(FALSE,
                                     LRMessage("Parse error: no goto", Last(below),
                                               <<action.lhs>>))
                              /\ pc' = "returned"
                              /\ UNCHANGED input_ptr
                         ELSE /\ stack' = Append(below, goto_table[<<Last(below), action.lhs>>])
                              /\ symbol_stack' = syms
                              /\ trace' = Append(trace, LRStepRecord("Reduce", action.n))
                              /\ UNCHANGED input_ptr
                              /\ IF ExceededSteps(trace')
                                 THEN /\ result' = Returned(FALSE,
                                           LRMessage("Parse exceeded maximum steps", 0, <<>>))
                                      /\ pc' = "returned"
                                 ELSE UNCHANGED <<result, pc>>
                ELSE /\ trace' = Append(trace, LRStepRecord("Accept", -1))
                     /\ result' = Returned(TRUE, NoMessage)
                     /\ pc' = "returned"
                     /\ UNCHANGED <<stack, symbol_stack, input_ptr>>
    /\ UNCHANGED <<grammar, tokens, caller_vars, follow_sets, ll_vars, bt_vars, xf_vars, gp_vars, parser_type, states,
                   goto_table, action_table, conflicts, work>>

LRNext == LRAutoPop \/ LRAutoGoto \/ LRBuildTables \/ LRTableItem \/ LRBegin \/ LRStep

\* the constructor and the loop of parse() run on: nothing suspends them
SpecLR ==
    LRInit /\ [][LRNext]_vars
           /\ WF_vars(LRAutoPop \/ LRAutoGoto \/ LRBuildTables \/ LRTableItem \/ LRStep)

-----------------------------------------------------------------------------
(* Claims about LRParser.parse. *)

LRLastAction == Last(trace).action

(* C3: when LRParser.parse returns success its last step is an Accept and  *)
(* the input left at that step is the final end marker alone.              *)
C3_LRAcceptConsumesAll ==
    (pc = "returned" /\ result.success) =>
        (LRLastAction = "Accept" /\ StepInput(Last(trace)) = <<END>>)

(* C4: LRParser.parse is bounded: a trace never has more than 1001 steps,  *)
(* a parse still running has at most 1000 and can take its next step, and *)
(* a parse whose trace passed 1000 steps without an Accept or an error     *)
(* step has returned (False, trace, "Parse exceeded maximum steps"), which *)
(* no accepting and no positional error return carries.                    *)
C4_LRParseBounded ==
    /\ Len(trace) <= LRMaxSteps + 1
    /\ pc = "parsing" => (Len(trace) <= LRMaxSteps /\ ENABLED LRStep)
    /\ (pc = "returned" /\ Len(trace) > LRMaxSteps
          /\ LRLastAction \in {"Shift", "Reduce"}) =>
            (~ result.success /\ result.message.kind = "Parse exceeded maximum steps")
    /\ (pc = "returned" /\ result.message.kind = "Parse exceeded maximum steps") =>
            (~ result.success /\ Len(trace) = LRMaxSteps + 1
               /\ LRLastAction \in {"Shift", "Reduce"})

\* a parse that reduced until the step bound stopped it
C4_Witness ==
    /\ pc = "returned"
    /\ result.message.kind = "Parse exceeded maximum steps"
    /\ Len(trace) = LRMaxSteps + 1

-----------------------------------------------------------------------------
(* BacktrackingParser (backtracking_parser.py).  The recursion of            *)
(* _parse_nonterminal and _parse_production is the list `frames` of the      *)
(* calls in progress; `ret` carries a returned value to the caller.          *)

\* BacktrackingParser.max_depth
max_depth == 100

\* a call _parse_nonterminal(nonterminal, depth), at its first line
NtFrame(nonterminal, depth) ==
    [fn |-> "nonterminal", at |-> "enter", nonterminal |-> nonterminal,
     production |-> <<>>, depth |-> depth, idx |-> 0, saved_pos |-> 0]

\* a call _parse_production(production, depth), at its first line
ProdFrame(production, depth) ==
    [fn |-> "production", at |-> "symbol", nonterminal |-> "",
     production |-> production, depth |-> depth, idx |-> 1, saved_pos |-> 0]

\* a trace record: the action text as its word, the nonterminal and the body
\* it names and the depth of its indentation; 'remaining' is tokens[position:]
BTRecord(action, nonterminal, production, depth) ==
    [action |-> action, nonterminal |-> nonterminal, production |-> production,
     depth |-> depth, position |-> pos]

BTMessage(kind, position, total) ==
    [kind |-> kind, position |-> position, symbols |-> <<>>, expected |-> {total}]

\* line 58: the depth test
DepthExceeded_late(depth) == depth > max_depth + 1

DepthExceeded(depth) == depth > max_depth

Top == Last(frames)

Popped == SubSeq(frames, 1, Len(frames) - 1)

SetTop(frame) == [frames EXCEPT ![Len(frames)] = frame]

\* the constructor, lines 19-21
BTInit ==
    /\ grammar \in Grammars
    /\ pc = "idle"
    /\ tokens = <<>>
    /\ caller_tokens = <<>>
    /\ passed_tokens = <<>>
    /\ trace = <<>>
    /\ result = NotReturned
    /\ pos = 0
    /\ frames = <<>>
    /\ ret = "none"
    /\ follow_sets = <<>>
    /\ stack = <<>>
    /\ input_ptr = 0
    /\ LLUnused
    /\ LRUnused
    /\ XFUnused
    /\ GPUnused

\* lines 33-38: parse(toks) is entered and calls _parse_nonterminal(start, 0)
BTBegin ==
    /\ pc \in {"idle", "returned"}
    /\ \E toks \in BTTokenLists :
          /\ tokens' = toks
          /\ passed_tokens' = toks
          /\ caller_tokens' = tokens'
    /\ trace' = <<>>
    /\ pos' = 0
    /\ frames' = << NtFrame(grammar.start_symbol, 0) >>
    /\ ret' = "none"
    /\ result' = NotReturned
    /\ pc' = "parsing"
    /\ UNCHANGED <<grammar, follow_sets, stack, input_ptr, ll_vars, lr_vars, xf_vars, gp_vars>>

\* lines 58-65: _parse_nonterminal is entered; beyond max_depth it raises
\* RecursionError, which no frame catches before parse() (lines 44-45)
BTEnter ==
    /\ pc = "parsing" /\ ret = "none"
    /\ frames # <<>> /\ Top.fn = "nonterminal" /\ Top.at = "enter"
    /\ IF DepthExceeded(Top.depth)
       THEN /\ frames' = <<>>
            /\ result' = Returned(FALSE,
                   BTMessage("Parse failed: maximum recursion depth exceeded", 0, 0))
            /\ pc' = "returned"
            /\ UNCHANGED <<trace, pos, ret>>
       ELSE /\ trace' = Append(trace, BTRecord("Try", Top.nonterminal, <<>>, Top.depth))
            /\ frames' = SetTop([Top EXCEPT !.at = "try", !.idx = 1])
            /\ UNCHANGED <<result, pc, pos, ret>>
    /\ UNCHANGED <<grammar, tokens, caller_vars, follow_sets, stack, input_ptr, ll_vars, lr_vars, xf_vars, gp_vars>>

\* lines 68-78 and 96-101: the next production is tried, or none is left
BTTry ==
    /\ pc = "parsing" /\ ret = "none"
    /\ frames # <<>> /\ Top.fn = "nonterminal" /\ Top.at = "try"
    /\ LET prods == grammar.productions[Top.nonterminal] IN
       IF Top.idx <= Len(prods)
       THEN /\ trace' = Append(trace,
                   BTRecord("Try production", Top.nonterminal, prods[Top.idx], Top.depth))
            /\ frames' = Append(SetTop([Top EXCEPT !.at = "wait", !.saved_pos = pos]),
                                ProdFrame(prods[Top.idx], Top.depth + 1))
            /\ UNCHANGED ret
       ELSE /\ trace' = Append(trace, BTRecord("Failed", Top.nonterminal, <<>>, Top.depth))
            /\ frames' = Popped
            /\ ret' = "false"
    /\ UNCHANGED <<grammar, tokens, caller_vars, pc, result, pos, follow_sets, stack, input_ptr,
                   ll_vars, lr_vars, xf_vars, gp_vars>>

\* lines 114-126: the next symbol of the production body
BTSymbol ==
    /\ pc = "parsing" /\ ret = "none"
    /\ frames # <<>> /\ Top.fn = "production" /\ Top.at = "symbol"
    /\ IF Top.idx > Len(Top.production)
       THEN /\ frames' = Popped
            /\ ret' = "true"
            /\ UNCHANGED pos
       ELSE LET symbol == Top.production[Top.idx] IN
            IF is_terminal(grammar, symbol)
            THEN IF pos >= Len(tokens) \/ tokens[pos + 1] # symbol
                 THEN /\ frames' = Popped
                      /\ ret' = "false"
                      /\ UNCHANGED pos
                 ELSE /\ pos' = pos + 1
                      /\ frames' = SetTop([Top EXCEPT !.idx = @ + 1])
                      /\ UNCHANGED ret
            ELSE IF is_nonterminal(grammar, symbol)
            THEN /\ frames' = Append(SetTop([Top EXCEPT !.at = "wait"]),
                                     NtFrame(symbol, Top.depth))
                 /\ UNCHANGED <<pos, ret>>
            ELSE /\ frames' = SetTop([Top EXCEPT !.idx = @ + 1])
                 /\ UNCHANGED <<pos, ret>>
    /\ UNCHANGED <<grammar, tokens, caller_vars, pc, result, trace, follow_sets, stack, input_ptr,
                   ll_vars, lr_vars, xf_vars, gp_vars>>

\* line 88 left out: the position stays where the failed production left it
backtrack_stay(frame) == pos

\* line 88, "self.pos = saved_pos": the position after a failed production
backtrack(frame) == frame.saved_pos

\* line 40 without its second test
ParseSucceeded_matched(r) == r = "true"

\* line 40: "result and self.pos == len(tokens)"
ParseSucceeded(r) == r = "true" /\ pos = Len(tokens)

\* a call returned `ret` to the frame below it: lines 80-94 in
\* _parse_nonterminal, 123-124 in _parse_production, 40-43 in parse
BTReturn ==
    /\ pc = "parsing" /\ ret # "none"
    /\ IF frames = <<>>
       THEN /\ result' = IF ParseSucceeded(ret)
                         THEN Returned(TRUE, NoMessage)
                         ELSE Returned(FALSE,
                                  BTMessage("Parse failed: only matched", pos, Len(tokens)))
            /\ pc' = "returned"
            /\ ret' = "none"
            /\ UNCHANGED <<frames, trace, pos>>
       ELSE IF Top.fn = "nonterminal"
       THEN LET prod == grammar.productions[Top.nonterminal][Top.idx] IN
            IF ret = "true"
            THEN /\ trace' = Append(trace,
                        BTRecord("Success", Top.nonterminal, prod, Top.depth))
                 /\ frames' = Popped
                 /\ UNCHANGED <<ret, pos, result, pc>>
            ELSE /\ pos' = backtrack(Top)
                 /\ trace' = Append(trace,
                        [BTRecord("Backtrack", Top.nonterminal, prod, Top.depth)
                            EXCEPT !.position = backtrack(Top)])
                 /\ frames' = SetTop([Top EXCEPT !.at = "try", !.idx = @ + 1])
                 /\ ret' = "none"
                 /\ UNCHANGED <<result, pc>>
       ELSE IF ret = "true"
            THEN /\ frames' = SetTop([Top EXCEPT !.at = "symbol", !.idx = @ + 1])
                 /\ ret' = "none"
                 /\ UNCHANGED <<trace, pos, result, pc>>
            ELSE /\ frames' = Popped
                 /\ UNCHANGED <<ret, trace, pos, result, pc>>
    /\ UNCHANGED <<grammar, tokens, caller_vars, follow_sets, stack, input_ptr, ll_vars, lr_vars, xf_vars, gp_vars>>

BTNext == BTBegin \/ BTEnter \/ BTTry \/ BTSymbol \/ BTReturn

\* parse() and the calls under it run on: nothing suspends them
SpecBT == BTInit /\ [][BTNext]_vars /\ WF_vars(BTEnter \/ BTTry \/ BTSymbol \/ BTReturn)

-----------------------------------------------------------------------------
(* Claims about BacktrackingParser.parse. *)

BTDepthExceeded ==
    result.message.kind = "Parse failed: maximum recursion depth exceeded"

BTStep == BTEnter \/ BTTry \/ BTSymbol \/ BTReturn

\* the longest production body of the grammar
LongestBody ==
    LET lens == UNION { { Len(grammar.productions[nt][i]) :
                            i \in DOMAIN grammar.productions[nt] } :
                        nt \in grammar.nonterminals } \cup {0}
    IN  CHOOSE n \in lens : \A m \in lens : m <= n

(* The rank of a parse in progress: the number of trace records, then how  *)
(* far the innermost call is from appending the next one.                  *)
BTRank ==
    Len(trace) * (LongestBody + 3) +
    (IF frames = <<>> THEN LongestBody + 2
     ELSE IF Top.fn = "nonterminal" THEN LongestBody + 2
     ELSE IF ret # "none" THEN 0
     ELSE Top.idx)

\* a nonterminal match is being attempted deeper than max_depth
BTTooDeep ==
    pc = "parsing" /\ ret = "none" /\ frames # <<>> /\ Top.at = "enter"
       /\ Top.depth > max_depth

(* C5: BacktrackingParser.parse terminates: a parse in progress always has *)
(* a next step, every step raises its rank, and the calls in progress are  *)
(* never nested deeper than max_depth + 1.  A nonterminal match attempted  *)
(* deeper than max_depth makes the parse return (False, trace, "maximum    *)
(* recursion depth exceeded"): not success, not the "only matched" message.*)
C5_BTTerminatesDepthBounded ==
    /\ [](pc = "parsing" =>
            /\ ENABLED BTStep
            /\ Len(frames) <= 2 * (max_depth + 1) + 1
            /\ frames # <<>> => Top.depth <= max_depth + 1)
    /\ []((pc = "returned" /\ BTDepthExceeded) => ~ result.success)
    /\ [][ /\ BTTooDeep => (pc' = "returned" /\ ~ result'.success /\ BTDepthExceeded')
           /\ (pc = "parsing" /\ pc' = "parsing") => BTRank' > BTRank
         ]_vars

\* a left-recursive descent that the depth bound stopped
C5_Witness ==
    /\ pc = "returned"
    /\ BTDepthExceeded
    /\ Len(trace) >= 2 * max_depth

-----------------------------------------------------------------------------
(* Grammar transformations (grammar_transforms.py). *)

\* copy.deepcopy(grammar.productions)
Dict(g) == [order |-> g.order, productions |-> g.productions]

\* productions[key] = value: a new key goes to the end of the dict
SetItem(d, key, value) ==
    IF key \in Range(d.order)
    THEN [d EXCEPT !.productions[key] = value]
    ELSE [order       |-> Append(d.order, key),
          productions |-> (key :> value) @@ d.productions]

\* "prod and prod[0] == nonterminal"
StartsWith(prod, nonterminal) == prod # <<>> /\ prod[1] = nonterminal

\* lines 59-60: if all productions were recursive, A -> A'
AllRecursive(new_nt) == << <<new_nt>> >>

eliminate_immediate_left_recursion(d, nonterminal) ==
    LET prods         == d.productions[nonterminal]
        rec           == SelectSeq(prods, LAMBDA prod : StartsWith(prod, nonterminal))
        recursive     == [k \in 1..Len(rec) |-> Tail(rec[k])]
        non_recursive == SelectSeq(prods, LAMBDA prod : ~ StartsWith(prod, nonterminal))
        new_nt        == FreshName(nonterminal \o "'", Range(d.order))
        new_prods_a   ==
            IF non_recursive = <<>> THEN AllRecursive(new_nt)
            ELSE [k \in 1..Len(non_recursive) |-> Append(non_recursive[k], new_nt)]
        new_prods_a_prime ==
            Append([k \in 1..Len(recursive) |-> Append(recursive[k], new_nt)], <<>>)
    IN  IF recursive = <<>> THEN d
        ELSE SetItem(SetItem(d, nonterminal, new_prods_a), new_nt, new_prods_a_prime)

\* lines 15-25: the alternatives of Ai that start with Aj get Aj's alternatives
Substitute(d, Ai, Aj) ==
    SetItem(d, Ai,
        Concat([k \in 1..Len(d.productions[Ai]) |->
            LET prod == d.productions[Ai][k]
            IN  IF StartsWith(prod, Aj)
                THEN [m \in 1..Len(d.productions[Aj]) |->
                          d.productions[Aj][m] \o Tail(prod)]
                ELSE <<prod>>]))

\* lines 14-25: for j in range(i)
RECURSIVE SubstituteEarlier(_, _, _, _)
SubstituteEarlier(d, nonterminals, i, j) ==
    IF j >= i THEN d
    ELSE SubstituteEarlier(Substitute(d, nonterminals[i], nonterminals[j]),
                           nonterminals, i, j + 1)

\* lines 12-28: for i, Ai in enumerate(nonterminals)
RECURSIVE RemoveFrom(_, _, _)
RemoveFrom(d, nonterminals, i) ==
    IF i > Len(nonterminals) THEN d
    ELSE RemoveFrom(
            eliminate_immediate_left_recursion(
                SubstituteEarlier(d, nonterminals, i, 1), nonterminals[i]),
            nonterminals, i + 1)

remove_left_recursion(g) ==
    LET d == RemoveFrom(Dict(g), g.order, 1)
    IN  Grammar(d.order, d.productions, g.start_symbol)

\* lines 125-127: the length of the common prefix of two bodies
RECURSIVE CommonLen(_, _)
CommonLen(prod_i, prod_j) ==
    IF prod_i # <<>> /\ prod_j # <<>> /\ Head(prod_i) = Head(prod_j)
    THEN 1 + CommonLen(Tail(prod_i), Tail(prod_j))
    ELSE 0

\* the pairs that only compare neighbouring alternatives
IndexPairs_adjacent(n) == [i \in 1..(IF n > 0 THEN n - 1 ELSE 0) |-> <<i, i + 1>>]

\* lines 119-120: the pairs i < j in the order of the two loops
IndexPairs(n) == Concat([i \in 1..n |-> [k \in 1..(n - i) |-> <<i, i + k>>]])

\* lines 129-135: the dict `prefixes` is a list of <<prefix, indices>> in
\* insertion order
AddPrefix(prefixes, prefix, i, j) ==
    IF \E k \in DOMAIN prefixes : prefixes[k][1] = prefix
    THEN [k \in DOMAIN prefixes |->
            IF prefixes[k][1] = prefix
            THEN <<prefix, prefixes[k][2] \cup {i, j}>>
            ELSE prefixes[k]]
    ELSE Append(prefixes, <<prefix, {i, j}>>)

RECURSIVE PrefixScan(_, _, _)
PrefixScan(prods, pairs, prefixes) ==
    IF pairs = <<>> THEN prefixes
    ELSE LET i == Head(pairs)[1]
             j == Head(pairs)[2]
             k == CommonLen(prods[i], prods[j])
         IN  PrefixScan(prods, Tail(pairs),
                        IF k > 0
                        THEN AddPrefix(prefixes, SubSeq(prods[i], 1, k), i, j)
                        ELSE prefixes)

find_common_prefixes(prods) == PrefixScan(prods, IndexPairs(Len(prods)), <<>>)

\* line 89: max(..., key=len) is the first entry of the greatest length
Longest(prefixes) ==
    prefixes[CHOOSE k \in DOMAIN prefixes :
                \A m \in DOMAIN prefixes :
                    /\ Len(prefixes[m][1]) <= Len(prefixes[k][1])
                    /\ m < k => Len(prefixes[m][1]) < Len(prefixes[k][1])]

\* lines 80-86: the nonterminals, in key order, whose alternatives share a prefix
Factorable(d) ==
    SelectSeq(d.order, LAMBDA nt : find_common_prefixes(d.productions[nt]) # <<>>)

\* lines 89-109: the longest common prefix of nt moves to a fresh nonterminal
Factor(d, nt) ==
    LET prods   == d.productions[nt]
        best    == Longest(find_common_prefixes(prods))
        prefix  == best[1]
        indices == best[2]
        new_nt  == FreshName(nt \o "'", Range(d.order))
        factored_prods ==
            Concat([i \in 1..Len(prods) |->
                      IF i \in indices THEN << From(prods[i], Len(prefix)) >> ELSE <<>>])
        other_prods ==
            Concat([i \in 1..Len(prods) |->
                      IF i \in indices THEN <<>> ELSE << prods[i] >>])
    IN  SetItem(SetItem(d, nt, Append(other_prods, Append(prefix, new_nt))),
                new_nt, factored_prods)

-----------------------------------------------------------------------------
(* Whose objects a dict of productions is made of.  The operators above    *)
(* give the values; these give, for the dict object, for the list of       *)
(* alternatives of every key and for every body, whether it is an object   *)
(* of the Grammar that was passed in ("in") or one made during the call    *)
(* ("new").                                                                *)

Owners(g, dict, lists) ==
    [ dict   |-> dict,
      lists  |-> [nt \in g.nonterminals |-> lists],
      bodies |-> [nt \in g.nonterminals |->
                    [i \in DOMAIN g.productions[nt] |-> lists]] ]

\* dict(grammar.productions): a new dict holding the same lists
deepcopy_keys(g) == Owners(g, "new", "in")

\* copy.deepcopy(grammar.productions): the dict and every list in it are new
deepcopy(g) == Owners(g, "new", "new")

\* productions[key] = <a list made in the call>, whose bodies are `bodies`
OwnerSetItem(own, key, bodies) ==
    [ dict   |-> own.dict,
      lists  |-> (key :> "new") @@ own.lists,
      bodies |-> (key :> bodies) @@ own.bodies ]

\* grammar_transforms.py lines 41-68: prod + [new_nt] and prod[1:] + [new_nt]
\* are new lists
OwnerEliminate(d, own, nonterminal) ==
    LET prods  == d.productions[nonterminal]
        rec    == SelectSeq(prods, LAMBDA prod : StartsWith(prod, nonterminal))
        others == SelectSeq(prods, LAMBDA prod : ~ StartsWith(prod, nonterminal))
        new_nt == FreshName(nonterminal \o "'", Range(d.order))
    IN  IF rec = <<>> THEN own
        ELSE OwnerSetItem(
                OwnerSetItem(own, nonterminal,
                    [k \in 1..(IF others = <<>> THEN 1 ELSE Len(others)) |-> "new"]),
                new_nt, [k \in 1..(Len(rec) + 1) |-> "new"])

\* lines 15-25: aj_prod + prod[1:] is a new list, new_prods.append(prod)
\* keeps the body it was given
OwnerSubstitute(d, own, Ai, Aj) ==
    OwnerSetItem(own, Ai,
        Concat([k \in 1..Len(d.productions[Ai]) |->
            IF StartsWith(d.productions[Ai][k], Aj)
            THEN [m \in 1..Len(d.productions[Aj]) |-> "new"]
            ELSE <<own.bodies[Ai][k]>>]))

RECURSIVE OwnerSubstituteEarlier(_, _, _, _, _)
OwnerSubstituteEarlier(d, own, nonterminals, i, j) ==
    IF j >= i THEN own
    ELSE OwnerSubstituteEarlier(Substitute(d, nonterminals[i], nonterminals[j]),
                                OwnerSubstitute(d, own, nonterminals[i], nonterminals[j]),
                                nonterminals, i, j + 1)

RECURSIVE OwnerRemoveFrom(_, _, _, _)
OwnerRemoveFrom(d, own, nonterminals, i) ==
    IF i > Len(nonterminals) THEN own
    ELSE LET d1 == SubstituteEarlier(d, nonterminals, i, 1)
             o1 == OwnerSubstituteEarlier(d, own, nonterminals, i, 1)
         IN  OwnerRemoveFrom(eliminate_immediate_left_recursion(d1, nonterminals[i]),
                             OwnerEliminate(d1, o1, nonterminals[i]),
                             nonterminals, i + 1)

\* lines 97-109: other_prods keeps the bodies it was given; the suffixes
\* prod[len(prefix):] and list(prefix) + [new_nt] are new lists
OwnerFactor(d, own, nt) ==
    LET prods   == d.productions[nt]
        indices == Longest(find_common_prefixes(prods))[2]
        new_nt  == FreshName(nt \o "'", Range(d.order))
        kept    == Concat([i \in 1..Len(prods) |->
                      IF i \in indices THEN <<>> ELSE << own.bodies[nt][i] >>])
    IN  OwnerSetItem(OwnerSetItem(own, nt, Append(kept, "new")),
                     new_nt, [k \in 1..Cardinality(indices) |-> "new"])

\* the Grammar that was passed in, after the call wrote the dict d: the
\* writes reach it when the dict written is its own
Written(g, d, own) ==
    IF own.dict = "in"
    THEN [g EXCEPT !.order = d.order, !.productions = d.productions]
    ELSE g

\* most nonterminals of a grammar that is handed to a transformation again
MaxChainNts == 3

\* the further grammars the transformations are applied to
TransformGrammars ==
    { \* S -> a b | b | a a
      Grammar(<<"S">>, [S |-> << <<"a", "b">>, <<"b">>, <<"a", "a">> >>], ""),
      \* S -> S a | S b | a
      Grammar(<<"S">>, [S |-> << <<"S", "a">>, <<"S", "b">>, <<"a">> >>], ""),
      \* S -> A a ; A -> S b | A a | b
      G2(<< <<"A", "a">> >>, << <<"S", "b">>, <<"A", "a">>, <<"b">> >>) }

\* grammars parse_grammar returns for texts with the character ': a name
\* left of "->" is kept whole, a body is split into words and single signs
PrimedGrammars ==
    { \* S->S'a|S'b
      Grammar(<<"S">>, [S |-> << <<"S", "'", "a">>, <<"S", "'", "b">> >>], ""),
      \* S->S a|b
      \* S'->a '|a
      Grammar(<<"S", "S'">>,
              ("S" :> << <<"S", "a">>, <<"b">> >>) @@ ("S'" :> << <<"a", "'">>, <<"a">> >>), ""),
      \* '->' a|b
      Grammar(<<"'">>, ("'" :> << <<"'", "a">>, <<"b">> >>), ""),
      \* S->S a|a b|a
      \* S'->a
      \* S''->b
      Grammar(<<"S", "S'", "S''">>,
              ("S" :> << <<"S", "a">>, <<"a", "b">>, <<"a">> >>) @@ ("S'" :> << <<"a">> >>)
                  @@ ("S''" :> << <<"b">> >>), "") }

XFInit ==
    /\ grammar \in Grammars \cup TransformGrammars \cup PrimedGrammars
    /\ pc = "idle"
    /\ XFUnused
    /\ GPUnused
    /\ tokens = <<>>
    /\ caller_tokens = <<>>
    /\ passed_tokens = <<>>
    /\ trace = <<>>
    /\ result = NotReturned
    /\ follow_sets = <<>>
    /\ stack = <<>>
    /\ input_ptr = 0
    /\ LLUnused
    /\ LRUnused
    /\ BTUnused

\* remove_left_recursion(grammar): its loops are bounded by the lists they
\* run over, so the call is one step
RemoveLeftRecursion ==
    /\ pc = "idle"
    /\ called' = "remove_left_recursion"
    /\ transformed' = remove_left_recursion(grammar)
    /\ owner' = OwnerRemoveFrom(Dict(grammar), deepcopy(grammar), grammar.order, 1)
    /\ grammar' = Written(grammar, RemoveFrom(Dict(grammar), grammar.order, 1), owner')
    /\ pc' = "returned"
    /\ UNCHANGED <<productions_copy, tokens, caller_vars, trace, result, follow_sets, stack,
                   input_ptr, ll_vars, lr_vars, bt_vars, gp_vars>>

\* left_factor(grammar), lines 75-76
LeftFactorBegin ==
    /\ pc = "idle"
    /\ called' = "left_factor"
    /\ productions_copy' = Dict(grammar)
    /\ owner' = deepcopy(grammar)
    /\ pc' = "running"
    /\ UNCHANGED <<grammar, transformed, tokens, caller_vars, trace, result, follow_sets, stack,
                   input_ptr, ll_vars, lr_vars, bt_vars, gp_vars>>

\* lines 78-112: one round of "while changed": the first nonterminal with a
\* common prefix is factored (and the for loop left), or none has one and
\* left_factor returns
LeftFactorPass ==
    /\ pc = "running"
    /\ LET found == Factorable(productions_copy)
       IN  IF found # <<>>
           THEN /\ productions_copy' = Factor(productions_copy, Head(found))
                /\ owner' = OwnerFactor(productions_copy, owner, Head(found))
                /\ grammar' = Written(grammar, productions_copy', owner')
                /\ UNCHANGED <<pc, transformed>>
           ELSE /\ transformed' = Grammar(productions_copy.order,
                                          productions_copy.productions,
                                          grammar.start_symbol)
                /\ pc' = "returned"
                /\ UNCHANGED <<productions_copy, owner, grammar>>
    /\ UNCHANGED <<called, tokens, caller_vars, trace, result, follow_sets, stack,
                   input_ptr, ll_vars, lr_vars, bt_vars, gp_vars>>

\* ui.py lines 99-101: the grammar a transformation returned is transformed again
TransformAgain ==
    /\ pc = "returned"
    /\ Len(transformed.order) <= MaxChainNts
    /\ grammar' = transformed
    /\ called' = ""
    /\ productions_copy' = <<>>
    /\ transformed' = <<>>
    /\ owner' = <<>>
    /\ pc' = "idle"
    /\ UNCHANGED <<tokens, caller_vars, trace, result, follow_sets, stack, input_ptr,
                   ll_vars, lr_vars, bt_vars, gp_vars>>

\* LRParser(grammar), lr_parser.py lines 33 and 48-57: the constructor
\* augments the grammar it was given
AugmentGrammar ==
    /\ pc = "idle"
    /\ called' = "_augment_grammar"
    /\ transformed' = _augment_grammar(grammar)
    /\ owner' = OwnerSetItem(deepcopy(grammar),
                             FreshName(grammar.start_symbol \o "'", grammar.nonterminals),
                             <<"new">>)
    /\ grammar' = Written(grammar, Dict(_augment_grammar(grammar)), owner')
    /\ pc' = "augmented"
    /\ UNCHANGED <<productions_copy, tokens, caller_vars, trace, result, follow_sets, stack,
                   input_ptr, ll_vars, lr_vars, bt_vars, gp_vars>>

XFNext ==
    \/ RemoveLeftRecursion
    \/ LeftFactorBegin
    \/ LeftFactorPass
    \/ TransformAgain
    \/ AugmentGrammar

\* a call of left_factor runs on until it returns
SpecXF == XFInit /\ [][XFNext]_vars /\ WF_vars(LeftFactorPass)

-----------------------------------------------------------------------------
(* Claims about the grammar transformations. *)

\* longest terminal string whose derivability is compared
MaxString == 3

\* the concatenations of a string of X and a string of Y, up to MaxString
CatBounded(X, Y) ==
    { xy[1] \o xy[2] : xy \in { p \in X \X Y : Len(p[1]) + Len(p[2]) <= MaxString } }

\* the terminal strings, up to MaxString, that a production body yields when
\* each nonterminal nt yields L[nt]; the symbol ε stands for the empty string
RECURSIVE BodyStrings(_, _, _)
BodyStrings(g, L, body) ==
    IF body = <<>> THEN { <<>> }
    ELSE CatBounded(IF Head(body) \in g.nonterminals THEN L[Head(body)]
                    ELSE IF Head(body) = EPS THEN { <<>> }
                    ELSE { <<Head(body)>> },
                    BodyStrings(g, L, Tail(body)))

RECURSIVE DeriveAll(_, _)
DeriveAll(g, L) ==
    LET L2 == [nt \in g.nonterminals |->
                 L[nt] \cup UNION { BodyStrings(g, L, g.productions[nt][i]) :
                                      i \in DOMAIN g.productions[nt] }]
    IN  IF L2 = L THEN L ELSE DeriveAll(g, L2)

\* the terminal strings, up to MaxString, derivable from the start symbol
Language(g) == DeriveAll(g, [nt \in g.nonterminals |-> {}])[g.start_symbol]

\* some alternative of some nonterminal starts with that nonterminal
ImmediatelyLeftRecursive(g) ==
    \E nt \in g.nonterminals : \E i \in DOMAIN g.productions[nt] :
        /\ g.productions[nt][i] # <<>>
        /\ g.productions[nt][i][1] = nt

(* C6: the grammar remove_left_recursion returns has no immediately        *)
(* left-recursive production, for the original and the fresh nonterminals. *)
C6_NoImmediateLeftRecursion ==
    (pc = "returned" /\ called = "remove_left_recursion") =>
        ~ ImmediatelyLeftRecursive(transformed)

(* C7: remove_left_recursion and left_factor keep the start symbol and the *)
(* language: a terminal string up to MaxString is derivable from the start *)
(* symbol of the grammar iff it is from that of the transformed grammar.   *)
C7_TransformsPreserveLanguage ==
    pc = "returned" =>
        /\ transformed.start_symbol = grammar.start_symbol
        /\ Language(transformed) = Language(grammar)

\* two alternatives of one nonterminal, at different positions, start alike
SharedPrefix(g) ==
    \E nt \in g.nonterminals : \E i, j \in DOMAIN g.productions[nt] :
        /\ i # j
        /\ g.productions[nt][i] # <<>>
        /\ g.productions[nt][j] # <<>>
        /\ g.productions[nt][i][1] = g.productions[nt][j][1]

\* the pairs of alternatives of one nonterminal that start alike
SharingPairs(d) ==
    Cardinality({ t \in UNION { { <<nt, i, j>> : i, j \in DOMAIN d.productions[nt] } :
                                  nt \in Range(d.order) } :
                    /\ t[2] < t[3]
                    /\ d.productions[t[1]][t[2]] # <<>>
                    /\ d.productions[t[1]][t[3]] # <<>>
                    /\ d.productions[t[1]][t[2]][1] = d.productions[t[1]][t[3]][1] })

(* C8: every call of left_factor returns: each round of its loop leaves    *)
(* fewer pairs of alternatives that start alike, and the round that finds  *)
(* none returns.  In the grammar it returns no nonterminal has two         *)
(* alternatives at different positions that share a non-empty prefix.      *)
C8_LeftFactorTerminatesPrefixFree ==
    /\ [][ pc = "running" =>
             IF SharingPairs(productions_copy) = 0
             THEN pc' = "returned"
             ELSE /\ pc' = "running"
                  /\ SharingPairs(productions_copy') < SharingPairs(productions_copy)
         ]_vars
    /\ []((pc = "returned" /\ called = "left_factor") => ~ SharedPrefix(transformed))

\* left_factor returned from a grammar with a duplicated alternative after
\* more than one factoring
C8_Witness ==
    /\ pc = "returned"
    /\ called = "left_factor"
    /\ \E nt \in grammar.nonterminals : \E i, j \in DOMAIN grammar.productions[nt] :
          /\ i # j
          /\ grammar.productions[nt][i] # <<>>
          /\ grammar.productions[nt][i] = grammar.productions[nt][j]
    /\ Len(transformed.order) >= Len(grammar.order) + 2

-----------------------------------------------------------------------------
(* compute_first_sets and compute_follow_sets applied to a grammar. *)

\* S, A, B with the given alternatives
G3(s, a, b) == Grammar(<<"S", "A", "B">>, [S |-> s, A |-> a, B |-> b], "")

\* the further grammars FIRST and FOLLOW are computed for
FirstFollowGrammars ==
    { \* S -> A B c | b ; A -> a | ε ; B -> b | ε
      G3(<< <<"A", "B", "c">>, <<"b">> >>, << <<"a">>, <<>> >>, << <<"b">>, <<>> >>),
      \* S -> A B ; A -> a | ε ; B -> b A | ε
      G3(<< <<"A", "B">> >>, << <<"a">>, <<>> >>, << <<"b", "A">>, <<>> >>),
      \* S -> a A B | B ; A -> B a | ε ; B -> S b | A
      G3(<< <<"a", "A", "B">>, <<"B">> >>, << <<"B", "a">>, <<>> >>,
         << <<"S", "b">>, <<"A">> >>),
      \* S -> A a ; A -> B ; B -> A | b
      G3(<< <<"A", "a">> >>, << <<"B">> >>, << <<"A">>, <<"b">> >>),
      \* S -> ε ε | a                     (parse_grammar keeps "ε ε" as two symbols)
      Grammar(<<"S">>, [S |-> << <<EPS, EPS>>, <<"a">> >>], ""),
      \* S -> A b ; A -> ε ε
      G2(<< <<"A", "b">> >>, << <<EPS, EPS>> >>),
      \* S -> a ε | b A ; A -> ε a
      G2(<< <<"a", EPS>>, <<"b", "A">> >>, << <<EPS, "a">> >>) }

FFInit ==
    /\ grammar \in Grammars \cup TransformGrammars \cup FirstFollowGrammars
    /\ pc = "idle"
    /\ first_sets = <<>>
    /\ follow_sets = <<>>
    /\ parsing_table = <<>>
    /\ tokens = <<>>
    /\ caller_tokens = <<>>
    /\ passed_tokens = <<>>
    /\ trace = <<>>
    /\ result = NotReturned
    /\ stack = <<>>
    /\ input_ptr = 0
    /\ LRUnused
    /\ BTUnused
    /\ XFUnused
    /\ GPUnused

\* first_sets = compute_first_sets(grammar)
ComputeFirst ==
    /\ pc = "idle"
    /\ first_sets' = compute_first_sets(grammar)
    /\ pc' = "first"
    /\ UNCHANGED <<grammar, follow_sets, parsing_table, tokens, caller_vars, trace, result, stack,
                   input_ptr, lr_vars, bt_vars, xf_vars, gp_vars>>

\* follow_sets = compute_follow_sets(grammar, first_sets)
ComputeFollow ==
    /\ pc = "first"
    /\ follow_sets' = compute_follow_sets(grammar, first_sets)
    /\ pc' = "follow"
    /\ UNCHANGED <<grammar, first_sets, parsing_table, tokens, caller_vars, trace, result, stack,
                   input_ptr, lr_vars, bt_vars, xf_vars, gp_vars>>

\* both functions are called again on the same Grammar object
ComputeAgain ==
    /\ pc = "follow"
    /\ first_sets' = compute_first_sets(grammar)
    /\ follow_sets' = compute_follow_sets(grammar, compute_first_sets(grammar))
    /\ pc' = "again"
    /\ UNCHANGED <<grammar, parsing_table, tokens, caller_vars, trace, result, stack,
                   input_ptr, lr_vars, bt_vars, xf_vars, gp_vars>>

\* LL1Parser.__init__, ll1_parser.py lines 11-12: the table and its conflicts
\* are built from the sets just computed
BuildTable ==
    /\ pc = "follow"
    /\ parsing_table' = _build_parsing_table(grammar, first_sets, follow_sets)
    /\ conflicts' \in _detect_conflicts(grammar, first_sets, parsing_table')
    /\ pc' = "table"
    /\ UNCHANGED <<grammar, first_sets, follow_sets, tokens, caller_vars, trace, result,
                   stack, input_ptr, parser_type, states, goto_table, action_table, work,
                   symbol_stack, bt_vars, xf_vars, gp_vars>>

FFNext == ComputeFirst \/ ComputeFollow \/ ComputeAgain \/ BuildTable

SpecFF == FFInit /\ [][FFNext]_vars

-----------------------------------------------------------------------------
(* parse_grammar and validate_grammar (grammar_parser.py).  A text is a    *)
(* sequence of characters, each a one-character string; a symbol is the    *)
(* string its characters spell.                                            *)

\* longest line of a text enumerated character by character
MaxLineLen == 4
\* most lines of a text put together from the named lines
MaxLines == 2

\* str.isspace() and str.isalnum(), on the characters the texts are written in
IsSpace(c) == c \in {" ", "\n", "\t"}

IsAlnum(c) == c \in {"S", "A", "B", "E", "T", "a", "b", "i", "n", "t", EPS}

\* ''.join(chars)
RECURSIVE Str(_)
Str(chars) == IF chars = <<>> THEN "" ELSE Head(chars) \o Str(Tail(chars))

RECURSIVE lstrip(_)
lstrip(s) == IF s # <<>> /\ IsSpace(Head(s)) THEN lstrip(Tail(s)) ELSE s

\* str.strip()
strip(s) == Reverse(lstrip(Reverse(lstrip(s))))

\* str.split(sep) for a one-character sep
RECURSIVE split(_, _)
split(s, sep) ==
    IF sep \notin Range(s)
    THEN <<s>>
    ELSE LET i == CHOOSE k \in DOMAIN s : s[k] = sep /\ \A j \in 1..(k - 1) : s[j] # sep
         IN  <<SubSeq(s, 1, i - 1)>> \o split(From(s, i), sep)

\* the places where '->' starts
Arrows(line) == { k \in 1..(Len(line) - 1) : line[k] = "-" /\ line[k + 1] = ">" }

\* line.split('->', 1)
split_arrow(line) ==
    LET i == CHOOSE k \in Arrows(line) : \A j \in Arrows(line) : k <= j
    IN  <<SubSeq(line, 1, i - 1), From(line, i + 1)>>

\* lines 90-102, from the character at the head of text on
RECURSIVE tokenize_from(_)
tokenize_from(t) ==
    IF t = <<>>
    THEN <<>>
    ELSE IF IsSpace(Head(t))
    THEN tokenize_from(Tail(t))
    ELSE IF IsAlnum(Head(t)) \/ Head(t) = "_"
    THEN LET ends == { j \in 1..Len(t) :
                         /\ \A k \in 1..j : IsAlnum(t[k]) \/ t[k] = "_"
                         /\ j = Len(t) \/ ~(IsAlnum(t[j + 1]) \/ t[j + 1] = "_") }
             j == CHOOSE e \in ends : TRUE
         IN  <<Str(SubSeq(t, 1, j))>> \o tokenize_from(From(t, j))
    ELSE <<Head(t)>> \o tokenize_from(Tail(t))

tokenize_production(t) == tokenize_from(strip(t))

\* lines 58-66: the bodies of the alternatives of one right-hand side
prod_bodies(rhs) ==
    LET alternatives == [i \in DOMAIN split(rhs, "|") |-> strip(split(rhs, "|")[i])]
    IN  [i \in DOMAIN alternatives |->
            IF alternatives[i] = <<>> \/ alternatives[i] = <<EPS>>
            THEN <<>>
            ELSE tokenize_production(alternatives[i])]

\* lines 69-72 with every line replacing what its left-hand side had
Accrete_replace(productions, lhs, bodies) == SetItem(productions, lhs, bodies)

\* lines 69-72
Accrete(productions, lhs, bodies) ==
    IF lhs \in Range(productions.order)
    THEN SetItem(productions, lhs, productions.productions[lhs] \o bodies)
    ELSE SetItem(productions, lhs, bodies)

Raise(message) == [raised |-> message, grammar |-> <<>>]

\* lines 46-77: the loop over the lines left, and what follows it
RECURSIVE ParseLines(_, _)
ParseLines(lines, productions) ==
    IF lines = <<>>
    THEN IF productions.order = <<>>
         THEN Raise("Empty grammar")
         ELSE [raised  |-> "",
               grammar |-> Grammar(productions.order, productions.productions, "")]
    ELSE LET line == Head(lines)
         IN  IF Arrows(line) = {}
             THEN Raise("Invalid production: " \o Str(line))
             ELSE LET lhs == strip(split_arrow(line)[1])
                      rhs == split_arrow(line)[2]
                  IN  IF lhs = <<>>
                      THEN Raise("Empty left-hand side in production")
                      ELSE ParseLines(Tail(lines),
                                      Accrete(productions, Str(lhs), prod_bodies(rhs)))

\* line 44
nonblank_lines(t) ==
    LET stripped == [i \in DOMAIN split(strip(t), "\n") |-> strip(split(strip(t), "\n")[i])]
    IN  SelectSeq(stripped, LAMBDA line : line # <<>>)

parse_grammar(t) ==
    ParseLines(nonblank_lines(t), [order |-> <<>>, productions |-> <<>>])

\* the lines texts are put together from
NamedLines ==
    { <<"S", " ", "-", ">", " ", "a", " ", "|", " ", "b">>,
      <<"S", "-", ">", "S", " ", "a", "|">>,
      <<"A", " ", "-", ">", " ", EPS>>,
      <<"S", " ", "-", ">", " ", "A", " ", "b">>,
      <<"B", "-", ">", "b">>,
      <<" ", " ">>,
      <<>>,
      <<"S", " ", "a">>,
      <<"-", ">", "a">>,
      <<" ", "-", ">", " ", "a">>,
      <<END, " ", "-", ">", " ", "a">>,
      <<"S", " ", "-", ">", " ", "a", "b", " ", "-", ">", " ", EPS, " ", EPS>>,
      <<"A", " ", "B", " ", "-", ">", " ", "a">>,
      <<"S", " ", "-", " ", ">", " ", "a">>,
      <<"S", " ", "-", ">", " ", "B", " ", "|", " ", "A">>,
      <<"A", " ", "-", ">", " ", "A", "\t", "S", " ">> }

\* '\n'.join(lines)
RECURSIVE JoinLines(_)
JoinLines(lines) ==
    IF lines = <<>> THEN <<>>
    ELSE IF Len(lines) = 1 THEN lines[1]
    ELSE lines[1] \o <<"\n">> \o JoinLines(Tail(lines))

Texts ==
    { JoinLines(ls) : ls \in UNION { [1..k -> NamedLines] : k \in 0..MaxLines } }
    \cup UNION { [1..k -> {"S", "a", "-", ">", "|", " "}] : k \in 0..MaxLineLen }

GPInit ==
    /\ text \in Texts
    /\ raised = ""
    /\ issues = <<>>
    /\ reachable = {}
    /\ grammar = <<>>
    /\ pc = "text"
    /\ tokens = <<>>
    /\ caller_tokens = <<>>
    /\ passed_tokens = <<>>
    /\ follow_sets = <<>>
    /\ stack = <<>>
    /\ input_ptr = 0
    /\ trace = <<>>
    /\ result = NotReturned
    /\ LLUnused
    /\ LRUnused
    /\ BTUnused
    /\ XFUnused

\* parse_grammar(text), lines 37-78
ParseGrammar ==
    /\ pc = "text"
    /\ raised' = parse_grammar(text).raised
    /\ grammar' = parse_grammar(text).grammar
    /\ pc' = IF parse_grammar(text).raised = "" THEN "parsed" ELSE "raised"
    /\ UNCHANGED <<text, issues, reachable, tokens, caller_vars, follow_sets, stack, input_ptr, trace,
                   result, ll_vars, lr_vars, bt_vars, xf_vars>>

\* str.isupper() on the symbols tokenize_production spells with letters: some
\* letter is upper-case and none is lower-case
UpperSymbols ==
    { Str(chars) : chars \in UNION { [1..k -> {"S", "A", "B", "E", "T"}] : k \in 1..MaxLineLen } }

isupper(symbol) == symbol \in UpperSymbols

\* line 117
UndefinedMessage(symbol) == "Warning: '" \o symbol \o "' used in production but not defined"

\* line 133, for the order in which the set is printed
UnreachableMessage(printed) == "Warning: Unreachable nonterminals: {" \o ListRepr(printed) \o "}"

\* lines 112-117
UndefinedIssues(g) ==
    LET symbols == Concat([i \in DOMAIN Items(g) |-> Items(g)[i][2]])
        flagged == SelectSeq(symbols, LAMBDA symbol :
                       /\ isupper(symbol) /\ symbol \notin g.nonterminals
                       /\ ~is_terminal(g, symbol))
    IN  [i \in DOMAIN flagged |-> UndefinedMessage(flagged[i])]

\* lines 123-129 entered with one production per nonterminal only
ReachRound_first(g, reached) ==
    reached \cup { symbol \in g.nonterminals :
                      \E nt \in reached \cap DOMAIN g.productions :
                          symbol \in Range(g.productions[nt][1]) }

\* lines 123-129: one round of "while changed"
ReachRound(g, reached) ==
    reached \cup { symbol \in g.nonterminals :
                      \E nt \in reached \cap DOMAIN g.productions :
                          \E i \in DOMAIN g.productions[nt] :
                              symbol \in Range(g.productions[nt][i]) }

\* 'Warning' in i, for the messages validate_grammar builds
HasWarning(g, issue) ==
    \/ \E symbol \in g.terminals \cup g.nonterminals \cup {EPS} : issue = UndefinedMessage(symbol)
    \/ \E S \in SUBSET g.nonterminals : \E printed \in Orderings(S) :
           issue = UnreachableMessage(printed)

\* lines 131-135, for one order in which the set is printed
Verdict(g, found, printed) ==
    LET all_issues == IF printed = <<>> THEN found
                      ELSE Append(found, UnreachableMessage(printed))
    IN  << Len(all_issues) = 0 \/ \A i \in DOMAIN all_issues : HasWarning(g, all_issues[i]),
           all_issues >>

\* validate_grammar(grammar), lines 107-120
ValidateBegin ==
    /\ pc = "parsed"
    /\ issues' = <<TRUE, UndefinedIssues(grammar)>>
    /\ reachable' = {grammar.start_symbol}
    /\ pc' = "reaching"
    /\ UNCHANGED <<grammar, text, raised, tokens, caller_vars, follow_sets, stack, input_ptr,
                   trace, result, ll_vars, lr_vars, bt_vars, xf_vars>>

\* lines 121-135: one round of the loop, and the return when nothing changed
Reach ==
    /\ pc = "reaching"
    /\ reachable' = ReachRound(grammar, reachable)
    /\ IF reachable' # reachable
       THEN UNCHANGED <<pc, issues>>
       ELSE /\ pc' = "validated"
            /\ \E printed \in Orderings(grammar.nonterminals \ reachable) :
                   issues' = Verdict(grammar, issues[2], printed)
    /\ UNCHANGED <<grammar, text, raised, tokens, caller_vars, follow_sets, stack, input_ptr,
                   trace, result, ll_vars, lr_vars, bt_vars, xf_vars>>

GPNext == ParseGrammar \/ ValidateBegin \/ Reach

SpecGP == GPInit /\ [][GPNext]_vars /\ WF_vars(Reach)

-----------------------------------------------------------------------------
(* Claims about FIRST and FOLLOW, against derivations of the grammar.  The *)
(* symbol ε in a body stands for the empty string.                         *)

\* the nonterminals that derive the empty string
RECURSIVE NullableFrom(_, _)
NullableFrom(g, N) ==
    LET N2 == { nt \in g.nonterminals :
                  \E i \in DOMAIN g.productions[nt] :
                      \A k \in DOMAIN g.productions[nt][i] :
                          g.productions[nt][i][k] \in N \cup {EPS} }
    IN  IF N2 = N THEN N ELSE NullableFrom(g, N2)

Nullable(g) == NullableFrom(g, {})

\* every symbol of seq derives the empty string
Vanishes(g, seq) == \A k \in DOMAIN seq : seq[k] \in Nullable(g) \cup {EPS}

\* the symbols a sentential form derived from seq in no step can begin
\* with, once the symbols before them are derived to nothing
Corners(g, seq) ==
    { seq[k] : k \in { m \in DOMAIN seq : Vanishes(g, SubSeq(seq, 1, m - 1)) } } \ {EPS}

\* the symbols X with A =>* X ... : the closure of `set` under the corners of
\* the alternatives of its nonterminals
RECURSIVE CornerClosure(_, _)
CornerClosure(g, set) ==
    LET more == set \cup UNION { UNION { Corners(g, g.productions[nt][i]) :
                                           i \in DOMAIN g.productions[nt] } :
                                   nt \in set \cap g.nonterminals }
    IN  IF more = set THEN set ELSE CornerClosure(g, more)

\* the terminals a sentential form derived from seq can begin with, and ε
\* if seq derives the empty string
BeginsOf(g, seq) ==
    (CornerClosure(g, Corners(g, seq)) \ g.nonterminals)
        \cup (IF Vanishes(g, seq) THEN {EPS} ELSE {})

(* C9: compute_first_sets returns, for every nonterminal A, exactly the    *)
(* terminals that begin a sentential form derivable from A, with ε iff A   *)
(* derives the empty string; and {t} for every terminal t.                 *)
C9_FirstIsLeastFixedPoint ==
    pc \in {"first", "follow"} =>
        /\ \A A \in grammar.nonterminals : first_sets[A] = BeginsOf(grammar, <<A>>)
        /\ \A t \in grammar.terminals : first_sets[t] = {t}

\* FIRST was computed for an alternative whose first symbol is a nonterminal
\* that derives the empty string and whose second symbol is a terminal
C9_Witness ==
    /\ pc = "first"
    /\ \E nt \in grammar.nonterminals : \E i \in DOMAIN grammar.productions[nt] :
          LET body == grammar.productions[nt][i]
          IN  /\ Len(body) >= 2
              /\ body[1] \in grammar.nonterminals
              /\ EPS \in first_sets[body[1]]
              /\ body[2] \in grammar.terminals
              /\ body[2] \in first_sets[nt]

\* the occurrences <<A, i, k>> of a nonterminal as symbol k of alternative i of A
Occurrences(g) ==
    UNION { UNION { { <<A, i, k>> :
                        k \in { m \in DOMAIN g.productions[A][i] :
                                  g.productions[A][i][m] \in g.nonterminals } } :
                    i \in DOMAIN g.productions[A] } :
            A \in g.nonterminals }

OccSymbol(g, o) == g.productions[o[1]][o[2]][o[3]]

\* what follows the occurrence in its body
OccRest(g, o) ==
    SubSeq(g.productions[o[1]][o[2]], o[3] + 1, Len(g.productions[o[1]][o[2]]))

\* the sets satisfy the FOLLOW rules
FollowClosed(g, fo) ==
    /\ END \in fo[g.start_symbol]
    /\ \A o \in Occurrences(g) :
          /\ (BeginsOf(g, OccRest(g, o)) \ {EPS}) \subseteq fo[OccSymbol(g, o)]
          /\ Vanishes(g, OccRest(g, o)) => fo[o[1]] \subseteq fo[OccSymbol(g, o)]

\* the nonterminals whose FOLLOW the rules put into FOLLOW(B): the closure of
\* `set` under "A has an occurrence of a member with nothing but vanishing
\* symbols after it"
RECURSIVE Givers(_, _)
Givers(g, set) ==
    LET more == set \cup { o[1] : o \in { q \in Occurrences(g) :
                                            /\ OccSymbol(g, q) \in set
                                            /\ Vanishes(g, OccRest(g, q)) } }
    IN  IF more = set THEN set ELSE Givers(g, more)

\* what the rules put into FOLLOW(B) at the least
LeastFollow(g, B) ==
    UNION { (IF A = g.start_symbol THEN {END} ELSE {}) \cup
            UNION { BeginsOf(g, OccRest(g, o)) \ {EPS} :
                      o \in { q \in Occurrences(g) : OccSymbol(g, q) = A } } :
            A \in Givers(g, {B}) }

(* C10: compute_follow_sets returns sets that satisfy the FOLLOW rules     *)
(* ('$' in FOLLOW(start); for A -> alpha B beta, FIRST(beta) minus ε in    *)
(* FOLLOW(B), and FOLLOW(A) in FOLLOW(B) if beta is empty or derives ε)    *)
(* and hold nothing that the rules do not force.                           *)
C10_FollowIsLeast ==
    pc = "follow" =>
        /\ DOMAIN follow_sets = grammar.nonterminals
        /\ FollowClosed(grammar, follow_sets)
        /\ \A B \in grammar.nonterminals : follow_sets[B] = LeastFollow(grammar, B)

\* FOLLOW was computed for a nonterminal, not the start symbol, that ends an
\* alternative of another nonterminal and got '$' from it
C10_Witness ==
    /\ pc = "follow"
    /\ \E o \in Occurrences(grammar) :
          /\ OccRest(grammar, o) = <<>>
          /\ OccSymbol(grammar, o) # o[1]
          /\ OccSymbol(grammar, o) # grammar.start_symbol
          /\ END \in follow_sets[OccSymbol(grammar, o)]
    /\ \E o \in Occurrences(grammar) :
          /\ OccRest(grammar, o) # <<>>
          /\ Vanishes(grammar, OccRest(grammar, o))
          /\ OccSymbol(grammar, o) # o[1]
          /\ follow_sets[o[1]] # {}

\* the permutations of 1..n
Perms(n) == { p \in [1..n -> 1..n] : \A i, j \in 1..n : p[i] = p[j] => i = j }

\* the lists with the elements of list in another order
Shuffles(list) == { [i \in 1..Len(list) |-> list[p[i]]] : p \in Perms(Len(list)) }

\* the grammars with the nonterminals and alternatives of g, entered in
\* another order: what "for nt, productions in grammar.productions.items()"
\* and "for prod in productions" visit in another order
Reorderings(g) ==
    { Grammar(order, prods, g.start_symbol) :
        order \in Shuffles(g.order),
        prods \in { f \in [g.nonterminals ->
                             UNION { Shuffles(g.productions[nt]) : nt \in g.nonterminals }] :
                      \A nt \in g.nonterminals : f[nt] \in Shuffles(g.productions[nt]) } }

(* C11: the sets compute_first_sets and compute_follow_sets return are the *)
(* same in whatever order the nonterminals and their alternatives are      *)
(* visited, and a second run on the same grammar returns the same sets.    *)
C11_FirstFollowOrderIndependent ==
    /\ [](pc \in {"first", "follow", "again"} =>
             \A g \in Reorderings(grammar) : compute_first_sets(g) = first_sets)
    /\ [](pc \in {"follow", "again"} =>
             \A g \in Reorderings(grammar) :
                 compute_follow_sets(g, compute_first_sets(g)) = follow_sets)
    /\ [][pc' = "again" => (first_sets' = first_sets /\ follow_sets' = follow_sets)]_vars

\* the sets were computed twice for a grammar on which one pass over the
\* productions gives another result in another visiting order
C11_Witness ==
    /\ pc = "again"
    /\ \E g \in Reorderings(grammar) :
          FirstPass(Items(g), [first |-> FirstInit(g), changed |-> FALSE]).first
              # FirstPass(Items(grammar),
                          [first |-> FirstInit(grammar), changed |-> FALSE]).first

\* the bodies of the grammar
BodiesOf(g) ==
    UNION { { g.productions[nt][i] : i \in DOMAIN g.productions[nt] } :
            nt \in g.nonterminals }

\* some nonterminal A has a derivation A =>+ A ...
LeftRecursive(g) ==
    \E A \in g.nonterminals :
        A \in CornerClosure(g, UNION { Corners(g, g.productions[A][i]) :
                                         i \in DOMAIN g.productions[A] })

\* FIRST of no nonterminal holds the epsilon marker
NoEpsilonInFirst ==
    \A A \in grammar.nonterminals : EPS \notin first_sets[A]

(* C12: for a grammar with no zero-length production and no left           *)
(* recursion, FIRST(A) as compute_first_sets returns it holds the epsilon  *)
(* marker for no nonterminal A, also when a non-empty body holds the       *)
(* symbol ε.                                                               *)
C12_NoEpsilonWithoutEmptyBody ==
    (pc = "first" /\ <<>> \notin BodiesOf(grammar) /\ ~ LeftRecursive(grammar))
        => NoEpsilonInFirst

(* C12 as amended: the same for a grammar that, besides, has no body made  *)
(* only of ε symbols and no nonterminal named ε.                           *)
C12_NoEpsilonWithoutVanishingBody ==
    ( /\ pc = "first"
      /\ \A body \in BodiesOf(grammar) : ~ (Range(body) \subseteq {EPS})
      /\ EPS \notin grammar.nonterminals
      /\ ~ LeftRecursive(grammar) )
        => NoEpsilonInFirst

\* FIRST was computed for such a grammar with the symbol ε inside a body
C12_Witness ==
    /\ pc = "first"
    /\ \A body \in BodiesOf(grammar) : ~ (Range(body) \subseteq {EPS})
    /\ ~ LeftRecursive(grammar)
    /\ \E body \in BodiesOf(grammar) : EPS \in Range(body)
    /\ Len(grammar.order) >= 2

-----------------------------------------------------------------------------
(* The LL(1) table (ll1_parser.py lines 14-56). *)

\* the productions a cell lists; none when the key is absent
Listed(table, key) ==
    IF key \in DOMAIN table THEN Range(table[key]) ELSE {}

\* the cells the rule of the table asks for production nt -> beta, by the
\* sets of strings the grammar derives
CellsFor(g, nt, beta) ==
    LET begins == BeginsOf(g, beta)
    IN  { <<nt, t>> : t \in (begins \ {EPS})
                          \cup (IF EPS \in begins THEN LeastFollow(g, nt) ELSE {}) }

(* C13: in the table LL1Parser builds, production A -> beta is listed in   *)
(* cell (A, t) exactly when t is in FIRST(beta) minus epsilon, or epsilon  *)
(* is in FIRST(beta) and t is in FOLLOW(A); a key that is present has a    *)
(* non-empty list.                                                         *)
C13_LL1TableCells ==
    pc = "table" =>
        /\ \A A \in grammar.nonterminals : \A beta \in Range(grammar.productions[A]) :
              \A t \in grammar.terminals \cup {EPS, END} :
                  beta \in Listed(parsing_table, <<A, t>>)
                      <=> <<A, t>> \in CellsFor(grammar, A, beta)
        /\ \A key \in DOMAIN parsing_table :
              /\ parsing_table[key] # <<>>
              /\ key[1] \in grammar.nonterminals
              /\ key[2] \in grammar.terminals
              /\ Listed(parsing_table, key) \subseteq Range(grammar.productions[key[1]])

\* a table was built in which a production is listed by FOLLOW, in a cell it
\* shares with a production listed by FIRST
C13_Witness ==
    /\ pc = "table"
    /\ \E key \in DOMAIN parsing_table :
          /\ Len(parsing_table[key]) = 2
          /\ \E beta \in Listed(parsing_table, key) :
                key[2] \notin BeginsOf(grammar, beta)
          /\ \E beta \in Listed(parsing_table, key) :
                key[2] \in BeginsOf(grammar, beta)

\* the cells that list more than one production
CrowdedCells == { key \in DOMAIN parsing_table : Len(parsing_table[key]) > 1 }

(* C14: is_ll1() is True exactly when every cell of parsing_table holds    *)
(* exactly one production; each cell that holds more than one entry has    *)
(* exactly one conflict message, which names its (nonterminal, terminal)   *)
(* pair, and there is no other message.                                    *)
C14_IsLL1IffSingleCells ==
    pc = "table" =>
        /\ is_ll1 <=> \A key \in DOMAIN parsing_table : Len(parsing_table[key]) = 1
        /\ \A key \in CrowdedCells :
              Cardinality({ i \in DOMAIN conflicts :
                              conflicts[i] = ConflictMessage(key, parsing_table[key]) }) = 1
        /\ \A k1, k2 \in CrowdedCells :
              k1 # k2 => ConflictMessage(k1, parsing_table[k1])
                             # ConflictMessage(k2, parsing_table[k2])
        /\ Len(conflicts) = Cardinality(CrowdedCells)

\* a parser was built whose table has two crowded cells and a cell with one
\* production
C14_Witness ==
    /\ pc = "table"
    /\ Cardinality(CrowdedCells) >= 2
    /\ ~ is_ll1
    /\ \E key \in DOMAIN parsing_table : Len(parsing_table[key]) = 1

-----------------------------------------------------------------------------
(* Claims about what the three parse methods return. *)

\* the triple a parse returned: the message is None exactly on success, and
\* an error message otherwise
ResultShape ==
    pc = "returned" =>
        /\ result.returned
        /\ result.success <=> result.message = NoMessage
        /\ ~ result.success => result.message.kind \notin {"None", ""}

(* C15: LL1Parser.parse returns a (success, trace, message) triple, without *)
(* raising, whose message is None exactly when success is True and a       *)
(* non-empty error message otherwise.  (LRParser.parse and                 *)
(* BacktrackingParser.parse are held to the same by ResultShape and by C4  *)
(* and C5.)  A parse whose stack grows without end (pc = "cut") ends in    *)
(* Python's MemoryError, not in a triple.                                  *)
C15_LL1ParseReturnsTriple ==
    /\ []ResultShape
    /\ (pc = "parsing") ~> (pc = "returned")

-----------------------------------------------------------------------------
(* Claims about the tables of LRParser (lr_parser.py lines 127-181). *)

\* the actions _add_action was called with for the cell: the one the cell
\* holds and the `new` of every conflict recorded for it
Proposed(key) ==
    (IF key \in DOMAIN action_table THEN {action_table[key]} ELSE {})
        \cup { conflicts[i].new :
                 i \in { n \in DOMAIN conflicts :
                           conflicts[n].state = key[1] /\ conflicts[n].symbol = key[2] } }

\* an action without its production number
Unnumbered(action) == [action EXCEPT !.n = IF action.kind = "reduce" THEN -1 ELSE @]

\* the terminals a reduce by a production of A is due at
ReduceAt(A) ==
    IF parser_type = "LR(0)" THEN grammar.terminals ELSE LeastFollow(grammar, A)

\* the actions due at cell (state_idx, X) by the items of the state
Due(state_idx, X) ==
    LET state == states[state_idx + 1] IN
    { Reduce(-1, item.lhs, item.rhs) :
        item \in { it \in state : /\ it.dot = Len(it.rhs)
                                  /\ it.lhs # grammar.start_symbol
                                  /\ X \in ReduceAt(it.lhs) } }
    \cup { Shift(n) : n \in { m \in 0..(Len(states) - 1) :
                                /\ X \notin grammar.nonterminals
                                /\ \E it \in state : it.dot < Len(it.rhs) /\ it.rhs[it.dot + 1] = X
                                /\ <<state_idx, X>> \in DOMAIN goto_table
                                /\ goto_table[<<state_idx, X>>] = m } }
    \cup (IF X = END /\ \E it \in state : it.dot = Len(it.rhs) /\ it.lhs = grammar.start_symbol
          THEN {Accept} ELSE {})

(* C16: when LRParser is built, the actions proposed for cell (state, X)   *)
(* are: a reduce by A -> alpha, A not the augmented start, exactly when    *)
(* the state holds [A -> alpha .] and X is a terminal of the augmented     *)
(* grammar, '$' included (LR(0)), or X is in FOLLOW(A) of the augmented    *)
(* grammar (SLR(1)); a shift exactly when X is a terminal after a dot of   *)
(* the state, to GOTO(state, X); accept exactly when X is '$' and the      *)
(* state holds the complete item of the augmented start production.        *)
C16_LRActionsProposed ==
    pc = "idle" =>
        /\ \A state_idx \in 0..(Len(states) - 1) :
              \A X \in grammar.terminals \cup grammar.nonterminals \cup {EPS} :
                  /\ { Unnumbered(a) : a \in Proposed(<<state_idx, X>>) } = Due(state_idx, X)
                  /\ (X \notin grammar.nonterminals
                        /\ \E it \in states[state_idx + 1] :
                              it.dot < Len(it.rhs) /\ it.rhs[it.dot + 1] = X)
                       => /\ <<state_idx, X>> \in DOMAIN goto_table
                          /\ states[goto_table[<<state_idx, X>>] + 1]
                               = _goto(grammar, states[state_idx + 1], X)
        /\ \A key \in DOMAIN action_table :
              key[1] \in 0..(Len(states) - 1)
        /\ \A i \in DOMAIN conflicts : conflicts[i].state \in 0..(Len(states) - 1)

\* an SLR(1) parser was built with a state where a reduce is proposed at some
\* terminals and not at others, and with shifts and the accept elsewhere
C16_Witness ==
    /\ pc = "idle"
    /\ parser_type = "SLR(1)"
    /\ \E key \in DOMAIN action_table :
          /\ action_table[key].kind = "reduce"
          /\ \E t \in grammar.terminals : Proposed(<<key[1], t>>) = {}
    /\ \E key \in DOMAIN action_table : action_table[key].kind = "shift"
    /\ \E key \in DOMAIN action_table : action_table[key].kind = "accept"

\* the conflict records of a cell, by their place in the list
RecordsOf(key) ==
    { i \in DOMAIN conflicts :
        conflicts[i].state = key[1] /\ conflicts[i].symbol = key[2] }

\* the items of the cell's state that ask for an action other than `held`
Dissenters(key, held) ==
    { item \in states[key[1] + 1] :
        \E r \in ItemActions(grammar, parser_type, follow_sets, goto_table, key[1], item) :
            r[1] = key /\ r[2] # held }

(* C17: while the LR tables are built an occupied ACTION cell keeps its    *)
(* action; every later registration of a different action at the cell     *)
(* appends one conflict record (state, symbol, existing, new) and leaves   *)
(* the cell alone; a registration of the same action records nothing;      *)
(* has_conflicts() is True exactly when there is a conflict record.        *)
C17_FirstActionWins ==
    /\ [][ /\ \A key \in DOMAIN action_table :
                key \in DOMAIN action_table' /\ action_table'[key] = action_table[key]
           /\ Len(conflicts') >= Len(conflicts)
           /\ SubSeq(conflicts', 1, Len(conflicts)) = conflicts
           /\ \A i \in (Len(conflicts) + 1)..Len(conflicts') :
                 LET key == <<conflicts'[i].state, conflicts'[i].symbol>>
                 IN  /\ key \in DOMAIN action_table
                     /\ conflicts'[i].existing = action_table[key]
                     /\ conflicts'[i].new # conflicts'[i].existing ]_vars
    /\ [](pc = "idle" =>
            \A key \in DOMAIN action_table :
                Cardinality(RecordsOf(key))
                    = Cardinality(Dissenters(key, action_table[key])))
    /\ [](has_conflicts <=> \E i \in DOMAIN conflicts : TRUE)

\* a parser was built with a cell two items of whose state were refused, and
\* a cell two items of whose state asked for the action it holds
C17_Witness ==
    /\ pc = "idle"
    /\ \E key \in DOMAIN action_table : Cardinality(RecordsOf(key)) >= 2
    /\ \E key \in DOMAIN action_table :
          /\ RecordsOf(key) = {}
          /\ Cardinality({ item \in states[key[1] + 1] :
                \E r \in ItemActions(grammar, parser_type, follow_sets, goto_table,
                                     key[1], item) : r[1] = key }) >= 2

-----------------------------------------------------------------------------
(* Claims about what BacktrackingParser.parse returns. *)

\* the call _parse_nonterminal(start_symbol, 0) returned True: its last act
\* was to append the Success record of depth 0
TopLevelMatched ==
    /\ trace # <<>>
    /\ Last(trace).action = "Success"
    /\ Last(trace).depth = 0
    /\ Last(trace).nonterminal = grammar.start_symbol

(* C18: BacktrackingParser.parse returns success exactly when the match of *)
(* the start symbol at the top level returned true and the position equals *)
(* the number of tokens; when the start symbol matched only a proper       *)
(* prefix it returns failure with the message "only matched p/n tokens".   *)
C18_BTSuccessIffAllMatched ==
    pc = "returned" =>
        /\ result.success <=> (TopLevelMatched /\ pos = Len(tokens))
        /\ (TopLevelMatched /\ pos < Len(tokens)) =>
              /\ ~ result.success
              /\ result.message = [kind |-> "Parse failed: only matched", position |-> pos,
                                   symbols |-> <<>>, expected |-> {Len(tokens)}]

\* parse returned after the start symbol matched a proper, non-empty prefix
C18_Witness ==
    /\ pc = "returned"
    /\ TopLevelMatched
    /\ 0 < pos /\ pos < Len(tokens)

-----------------------------------------------------------------------------
(* Claims about what the transformations and the parsers leave alone. *)

\* the dict of the result and every list in it were made during the call,
\* and there is one owner entry for every list of the result
ResultIsNew ==
    /\ owner.dict = "new"
    /\ DOMAIN owner.lists = transformed.nonterminals
    /\ DOMAIN owner.bodies = transformed.nonterminals
    /\ \A nt \in transformed.nonterminals :
          /\ owner.lists[nt] = "new"
          /\ Len(owner.bodies[nt]) = Len(transformed.productions[nt])
          /\ \A i \in DOMAIN owner.bodies[nt] : owner.bodies[nt][i] = "new"

(* C19: remove_left_recursion, left_factor and the augmentation done by    *)
(* the LRParser constructor leave the Grammar passed to them as it was     *)
(* (production mapping, alternative lists, bodies, start symbol, terminal  *)
(* and nonterminal sets), and the Grammar they return holds a dict and     *)
(* lists none of which is an object of the Grammar passed in.              *)
C19_TransformsLeaveInputAlone ==
    /\ [][called' # "" => grammar' = grammar]_vars
    /\ [](pc \in {"returned", "augmented"} => ResultIsNew)

\* left_factor returned a changed grammar that kept a body of the input, by
\* value, in a nonterminal it rewrote
C19_Witness ==
    /\ pc = "returned"
    /\ called = "left_factor"
    /\ \E nt \in grammar.nonterminals :
          /\ transformed.productions[nt] # grammar.productions[nt]
          /\ Range(transformed.productions[nt]) \cap Range(grammar.productions[nt]) # {}

\* what the constructors build and a parse only reads
BuildState ==
    <<grammar, first_sets, follow_sets, parsing_table, parser_type, states,
      action_table, goto_table, conflicts>>

-----------------------------------------------------------------------------
(* Claims about parse_grammar and validate_grammar.  A line of the text is *)
(* told by the place before its first character: 0, or the place of a     *)
(* line break.                                                             *)

LineStarts(t) == {0} \cup { i \in DOMAIN t : t[i] = "\n" }

\* the place after the last character of the line that starts after a
LineEnd(t, a) ==
    LET later == { i \in DOMAIN t : i > a /\ t[i] = "\n" } \cup {Len(t) + 1}
    IN  CHOOSE e \in later : \A f \in later : e <= f

Inked(t, a) == { k \in (a + 1)..(LineEnd(t, a) - 1) : ~IsSpace(t[k]) }

NonBlankStarts(t) == { a \in LineStarts(t) : Inked(t, a) # {} }

\* where the first '->' of the line is, 0 if it has none
ArrowAt(t, a) ==
    LET at == { k \in (a + 1)..(LineEnd(t, a) - 2) : t[k] = "-" /\ t[k + 1] = ">" }
    IN  IF at = {} THEN 0 ELSE CHOOSE k \in at : \A j \in at : k <= j

\* the text before the arrow, from its first to its last character that is not
\* white space
LhsText(t, a) ==
    LET ink == { k \in Inked(t, a) : k < ArrowAt(t, a) }
    IN  IF ink = {} THEN ""
        ELSE Str(SubSeq(t, CHOOSE k \in ink : \A j \in ink : k <= j,
                           CHOOSE k \in ink : \A j \in ink : k >= j))

Malformed(t) ==
    \/ NonBlankStarts(t) = {}
    \/ \E a \in NonBlankStarts(t) : ArrowAt(t, a) = 0 \/ LhsText(t, a) = ""

\* the alternatives of the lines with the left-hand side nt, in text order
RECURSIVE AlternativesOf(_, _, _)
AlternativesOf(t, nt, starts) ==
    IF starts = {} THEN <<>>
    ELSE LET a == CHOOSE x \in starts : \A y \in starts : x <= y
         IN  (IF LhsText(t, a) = nt
              THEN prod_bodies(SubSeq(t, ArrowAt(t, a) + 2, LineEnd(t, a) - 1))
              ELSE <<>>) \o AlternativesOf(t, nt, starts \ {a})

\* C21: parse_grammar raises, and builds no Grammar, exactly when the text has
\* no non-blank line, or some non-blank line has no '->' or nothing before its
\* first '->'; otherwise the Grammar it returns has the left-hand side of the
\* first non-blank line as its start symbol, the left-hand sides of the lines
\* as its nonterminals, and for each of them the alternatives of its lines in
\* text order.
C21_ParseGrammarOutcome ==
    (pc \in {"raised", "parsed"}) =>
        /\ (raised # "") <=> Malformed(text)
        /\ (raised # "") => grammar = <<>>
        /\ (raised = "") =>
             LET first == CHOOSE a \in NonBlankStarts(text) :
                              \A b \in NonBlankStarts(text) : a <= b
             IN  /\ grammar.start_symbol = LhsText(text, first)
                 /\ DOMAIN grammar.productions =
                        { LhsText(text, a) : a \in NonBlankStarts(text) }
                 /\ \A nt \in DOMAIN grammar.productions :
                        grammar.productions[nt] =
                            AlternativesOf(text, nt, NonBlankStarts(text))

\* two lines with the same left-hand side were parsed, and a grammar returned
C21_Witness ==
    /\ pc = "parsed"
    /\ \E a, b \in NonBlankStarts(text) : a # b /\ LhsText(text, a) = LhsText(text, b)

\* the symbols of the bodies of g
BodySymbols(g) ==
    { s \in g.terminals \cup g.nonterminals \cup {EPS} :
        \E nt \in DOMAIN g.productions : \E i \in DOMAIN g.productions[nt] :
            s \in Range(g.productions[nt][i]) }

Partitioned(g) ==
    /\ g.nonterminals = DOMAIN g.productions
    /\ g.terminals = (BodySymbols(g) \ (g.nonterminals \cup {EPS})) \cup {END}
    /\ g.start_symbol \in DOMAIN g.productions
    /\ g.terminals \cap g.nonterminals = {}

\* C22: the Grammar that parse_grammar, a transformation or the augmentation
\* returned has the keys of its mapping as nonterminals, the body symbols that
\* are neither nonterminals nor ε, and "$", as terminals, a key as start
\* symbol, and no symbol that is both a terminal and a nonterminal.
C22_GrammarPartitioned ==
    /\ (grammar # <<>>) => Partitioned(grammar)
    /\ (transformed # <<>>) => Partitioned(transformed)

\* the upper-case symbols of the bodies of g that are no left-hand side
UndefinedSymbols(g) == { s \in BodySymbols(g) : isupper(s) /\ s \notin DOMAIN g.productions }

\* C23: the issues validate_grammar collects name every upper-case symbol that
\* is used in a production body and is no left-hand side.
C23_UndefinedSymbolsReported ==
    (pc \in {"reaching", "validated"}) =>
        \A s \in UndefinedSymbols(grammar) : UndefinedMessage(s) \in Range(issues[2])

\* nt stands in some body of the nonterminal from
UsedBy(g, from, nt) ==
    \E i \in DOMAIN g.productions[from] : nt \in Range(g.productions[from][i])

\* the nonterminals at the end of a chain that begins at the start symbol, each
\* nonterminal of the chain standing in a body of the one before it
ReachableFromStart(g) ==
    { nt \in g.nonterminals :
        \E k \in 1..Cardinality(g.nonterminals) : \E chain \in [1..k -> g.nonterminals] :
            /\ chain[1] = g.start_symbol
            /\ chain[k] = nt
            /\ \A i \in 1..(k - 1) : UsedBy(g, chain[i], chain[i + 1]) }

Unreachable(g) == g.nonterminals \ ReachableFromStart(g)

UnreachableIssues(g, found) ==
    { i \in DOMAIN found :
        \E S \in SUBSET g.nonterminals : \E printed \in Orderings(S) :
            S # {} /\ found[i] = UnreachableMessage(printed) }

UnreachableReported ==
    (pc = "validated") =>
        /\ (UnreachableIssues(grammar, issues[2]) # {}) <=> (Unreachable(grammar) # {})
        /\ \A i \in UnreachableIssues(grammar, issues[2]) :
               \E printed \in Orderings(Unreachable(grammar)) :
                   issues[2][i] = UnreachableMessage(printed)

\* C24: validate_grammar reports 'Unreachable nonterminals' exactly when some
\* nonterminal ends no chain of uses that begins at the start symbol, the set
\* it prints is the set of those nonterminals, and its loop always comes to
\* an end.
C24_UnreachableExactAndTerminates ==
    /\ []UnreachableReported
    /\ (pc = "reaching") ~> (pc = "validated")

\* validate_grammar returned for a grammar with an unreachable nonterminal
C24_Witness ==
    /\ pc = "validated"
    /\ Unreachable(grammar) # {}
    /\ UnreachableIssues(grammar, issues[2]) # {}

-----------------------------------------------------------------------------
(* The default grammar, from its text to a parser (grammar_parser.py,      *)
(* ui.py, ll1_parser.py, lr_parser.py).                                    *)

\* the text DEFAULT_GRAMMAR
DEFAULT_GRAMMAR ==
    <<"E", " ", "-", ">", " ", "T", " ", "+", " ", "E", " ", "|", " ", "T", "\n",
      "T", " ", "-", ">", " ", "T", " ", "*", " ", "i", "n", "t", " ", "|", " ",
      "i", "n", "t", " ", "|", " ", "(", " ", "E", " ", ")">>

\* grammar_transforms.py lines 140-153
needs_transformation_for_ll1(g) ==
    \/ \E nt \in DOMAIN g.productions : \E i \in DOMAIN g.productions[nt] :
           StartsWith(g.productions[nt][i], nt)
    \/ \E nt \in DOMAIN g.productions : find_common_prefixes(g.productions[nt]) # <<>>

\* grammar_transforms.py lines 77-110: the rounds of "while changed"
RECURSIVE FactorLoop(_)
FactorLoop(d) ==
    IF Factorable(d) = <<>> THEN d ELSE FactorLoop(Factor(d, Head(Factorable(d))))

\* left_factor, returning its argument
left_factor_skip(g) == g

\* grammar_transforms.py lines 72-112
left_factor(g) ==
    LET d == FactorLoop(Dict(g))
    IN  Grammar(d.order, d.productions, g.start_symbol)

\* the token lists of the examples, and the short lists over their tokens
ExampleTokens == {"int", "+", "*", "(", ")"}

ExampleLL1TokenLists ==
    { <<"int", "+", "int", "*", "int">>, <<"int", "+">> }
    \cup UNION { [1..k -> ExampleTokens] : k \in 0..MaxTokens }

ExInit ==
    /\ text = DEFAULT_GRAMMAR
    /\ raised = ""
    /\ issues = <<>>
    /\ reachable = {}
    /\ grammar = <<>>
    /\ pc = "text"
    /\ tokens = <<>>
    /\ caller_tokens = <<>>
    /\ passed_tokens = <<>>
    /\ follow_sets = <<>>
    /\ stack = <<>>
    /\ input_ptr = 0
    /\ trace = <<>>
    /\ result = NotReturned
    /\ LLUnused
    /\ LRUnused
    /\ BTUnused
    /\ XFUnused

\* build_ll1_parser(grammar, console_widget), ui.py lines 91-115, and the
\* LL1Parser constructor it calls
BuildLL1Parser ==
    /\ pc = "parsed"
    /\ LET transformed_grammar ==
               IF needs_transformation_for_ll1(grammar)
               THEN left_factor(remove_left_recursion(grammar))
               ELSE grammar
           fi == compute_first_sets(transformed_grammar)
           fo == compute_follow_sets(transformed_grammar, fi)
       IN  /\ transformed' = transformed_grammar
           /\ grammar' = transformed_grammar
           /\ first_sets' = fi
           /\ follow_sets' = fo
           /\ parsing_table' = _build_parsing_table(transformed_grammar, fi, fo)
           /\ conflicts' \in _detect_conflicts(transformed_grammar, fi,
                                 _build_parsing_table(transformed_grammar, fi, fo))
    /\ pc' = "idle"
    /\ UNCHANGED <<tokens, caller_vars, stack, input_ptr, trace, result, parser_type, states,
                   goto_table, action_table, work, symbol_stack, bt_vars, called,
                   productions_copy, owner, gp_vars>>

ExLL1Begin == \E toks \in ExampleLL1TokenLists : LL1Enter(toks)

ExLL1Next == ParseGrammar \/ BuildLL1Parser \/ ExLL1Begin \/ LL1Step \/ LL1Accept

SpecExLL1 == ExInit /\ [][ExLL1Next]_vars /\ WF_vars(LL1Step \/ LL1Accept)

ExampleAccepted == <<"int", "+", "int", "*", "int">>

ExampleRejected == <<"int", "+">>

ExampleLL1Outcome ==
    /\ (pc \in {"idle", "parsing", "returned"}) => is_ll1
    /\ (pc = "returned" /\ passed_tokens = ExampleAccepted) =>
           result = Returned(TRUE, NoMessage)
    /\ (pc = "returned" /\ passed_tokens = ExampleRejected) =>
           /\ ~result.success
           /\ result.message.kind = "Parse error: unexpected token"

\* C25: for the text DEFAULT_GRAMMAR, parsed and put through
\* remove_left_recursion and left_factor, the LL1Parser has no conflict, its
\* parse of "int + int * int" returns success with no message, and its parse
\* of "int +" returns failure with an "unexpected token" message.
C25_DefaultGrammarLL1 ==
    /\ []ExampleLL1Outcome
    /\ (pc = "parsing" /\ passed_tokens \in {ExampleAccepted, ExampleRejected})
           ~> (pc = "returned")

\* the parse of "int + int * int" returned success
C25_Witness ==
    /\ pc = "returned"
    /\ passed_tokens = ExampleAccepted
    /\ result.success
    /\ transformed # DefaultGrammar

ExampleLRAccepted == <<"(", "int", "+", "int", ")", "*", "int">>

ExampleLRTokenLists ==
    {ExampleLRAccepted} \cup UNION { [1..k -> ExampleTokens] : k \in 0..MaxLRTokens }

\* LRParser(parse_grammar(DEFAULT_GRAMMAR), 'SLR(1)')
ExLRInit == LRConstruct(DefaultGrammar, "SLR(1)")

ExLRBegin == \E toks \in ExampleLRTokenLists : LREnter(toks)

ExLRNext ==
    LRAutoPop \/ LRAutoGoto \/ LRBuildTables \/ LRTableItem \/ ExLRBegin \/ LRStep

SpecExLR ==
    ExLRInit /\ [][ExLRNext]_vars
             /\ WF_vars(LRAutoPop \/ LRAutoGoto \/ LRBuildTables \/ LRTableItem \/ LRStep)

ExampleLROutcome ==
    (parser_type = "SLR(1)") =>
        /\ ~has_conflicts
        /\ (pc = "returned" /\ passed_tokens = ExampleLRAccepted) =>
               result = Returned(TRUE, NoMessage)

\* C26: the SLR(1) LRParser of the default grammar records no conflict,
\* whatever the order in which its sets are iterated, and its parse of
\* "( int + int ) * int" returns success.
C26_DefaultGrammarSLR ==
    /\ []ExampleLROutcome
    /\ (parser_type = "SLR(1)" /\ pc = "parsing" /\ passed_tokens = ExampleLRAccepted)
           ~> (pc = "returned")

\* the parse of "( int + int ) * int" returned success from the SLR(1) parser
C26_Witness ==
    /\ parser_type = "SLR(1)"
    /\ pc = "returned"
    /\ passed_tokens = ExampleLRAccepted
    /\ result.success
    /\ Len(states) = 11

-----------------------------------------------------------------------------
(* LRParser._build_automaton alone, for every grammar of the model. *)

LRAInit == \E g \in Grammars, mode \in ParserTypes : LRConstruct(g, mode)

LRANext == LRAutoPop \/ LRAutoGoto \/ LRBuildTables

SpecLRA == LRAInit /\ [][LRANext]_vars

\* every item of the grammar g
AllItems(g) ==
    UNION { { LRItem(pb[1], pb[2], dot) : dot \in 0..Len(pb[2]) } : pb \in Range(Items(g)) }

NoStateTwice ==
    /\ \A i, j \in DOMAIN states : states[i] = states[j] => i = j
    /\ \A i \in DOMAIN states : states[i] \subseteq AllItems(grammar)

\* the states taken from `unmarked` so far
StatesTaken == Len(states) - Len(work.unmarked)

\* a step of the construction takes a symbol from those left for the state in
\* hand, or takes the next state from `unmarked`, or ends the construction
Advances ==
    \/ work'.todo \subseteq work.todo /\ work'.todo # work.todo /\ StatesTaken' = StatesTaken
    \/ StatesTaken' = StatesTaken + 1 /\ states' = states
    \/ pc' = "tables"

\* the state list grows by the target of the entry only when no state equals
\* it, and then by it alone; otherwise the entry is the index of the state
\* that equals it
AppendedOnlyIfNew ==
    \A key \in DOMAIN goto_table' \ DOMAIN goto_table :
        LET target == states'[goto_table'[key] + 1]
        IN  IF target \in Range(states)
            THEN states' = states /\ states[goto_table'[key] + 1] = target
            ELSE states' = Append(states, target)

\* C27: the state list of _build_automaton never holds the same item set
\* twice: a Goto result is appended only if no state equals it, otherwise the
\* index of the equal state is entered.  The construction comes to an end:
\* the states are different sets of items of the grammar, each is taken from
\* `unmarked` once, and each step between takes one of its symbols.
C27_NoDuplicateStates ==
    /\ []NoStateTwice
    /\ [][ (pc = "automaton") => (AppendedOnlyIfNew /\ Advances) ]_vars

\* a Goto result that equals an earlier state was found again, and the
\* construction has ended
C27_Witness ==
    /\ pc = "tables"
    /\ \E k1, k2 \in DOMAIN goto_table : k1 # k2 /\ goto_table[k1] = goto_table[k2]
    /\ Len(states) > 2

\* the nonterminals right after the dot of an item of I
Awaited(g, I) == { next_symbol(item) : item \in I } \cap g.nonterminals

\* B is the first symbol of some production of A
Leads(g, A, B) == \E i \in DOMAIN g.productions[A] : StartsWith(g.productions[A][i], B)

\* the nonterminals at the end of a chain that begins after a dot of I, each
\* the first symbol of a production of the one before it
Wanted(g, I) ==
    { B \in g.nonterminals :
        \E k \in 1..Cardinality(g.nonterminals) : \E chain \in [1..k -> g.nonterminals] :
            /\ chain[1] \in Awaited(g, I)
            /\ chain[k] = B
            /\ \A i \in 1..(k - 1) : Leads(g, chain[i], chain[i + 1]) }

\* the least set that holds I and, with an item [A -> alpha . B beta] for a
\* nonterminal B, every [B -> . gamma]
LeastClosed(g, I) ==
    I \cup UNION { { LRItem(B, g.productions[B][i], 0) : i \in DOMAIN g.productions[B] } :
                   B \in Wanted(g, I) }

ClosedUnderRule(g, R) ==
    \A item \in R :
        next_symbol(item) \in g.nonterminals =>
            \A i \in DOMAIN g.productions[next_symbol(item)] :
                LRItem(next_symbol(item), g.productions[next_symbol(item)][i], 0) \in R

\* what _closure returns for I is the least closed set, and a round of its
\* loop adds nothing but items of the grammar
ClosureIsLeast(g, I) ==
    LET R == _closure(g, I)
    IN  /\ I \subseteq R
        /\ ClosedUnderRule(g, R)
        /\ R = LeastClosed(g, I)
        /\ ClosureSweep(g, I) \subseteq I \cup AllItems(g)
        /\ ClosureSweep(g, R) = R

\* the items of s with the dot moved over X
Moved(s, X) ==
    { LRItem(item.lhs, item.rhs, item.dot + 1) : item \in { it \in s : next_symbol(it) = X } }

StartItem(g) == LRItem(g.start_symbol, g.productions[g.start_symbol][1], 0)

\* C28: _closure(I) is the least set that contains I and, with an item
\* [A -> alpha . B beta] for a nonterminal B, every item [B -> . gamma]; its
\* loop ends for every grammar.  Checked for every set I of at most two items
\* of the grammar, and for the sets the construction takes the closure of.
C28_ClosureIsLeastClosedSet ==
    /\ (pc = "automaton" /\ work.state_idx = -1) =>
           \A I \in { J \in SUBSET AllItems(grammar) : Cardinality(J) <= 2 } :
               ClosureIsLeast(grammar, I)
    /\ states[1] = LeastClosed(grammar, {StartItem(grammar)})
    /\ \A key \in DOMAIN goto_table :
           /\ ClosureIsLeast(grammar, Moved(states[key[1] + 1], key[2]))
           /\ states[goto_table[key] + 1] =
                  LeastClosed(grammar, Moved(states[key[1] + 1], key[2]))

\* the closure of the start item took more than one round, in a grammar with a
\* left-recursive production
C28_Witness ==
    /\ pc = "tables"
    /\ Wanted(grammar, {StartItem(grammar)}) # Awaited(grammar, {StartItem(grammar)})
    /\ \E A \in grammar.nonterminals : Leads(grammar, A, A)
    /\ states[1] = LeastClosed(grammar, {StartItem(grammar)})

\* the indices of the states that goto_table leads to from those of S
RECURSIVE Within(_)
Within(S) ==
    LET further == S \cup { goto_table[key] : key \in { k \in DOMAIN goto_table : k[1] \in S } }
    IN  IF further = S THEN S ELSE Within(further)

AfterDot(s) == { next_symbol(item) : item \in states[s + 1] } \ {""}

\* C29: when the construction has ended, state 0 is the closure of
\* [S' -> . S]; goto_table has an entry (s, X) exactly when X stands right
\* after the dot of an item of state s; the state it names is the closure of
\* the items of s with the dot moved over X; and every state has an item and
\* is reached from state 0 through goto_table.
C29_AutomatonShape ==
    (pc = "tables") =>
        /\ grammar.start_symbol = Last(grammar.order)
        /\ states[1] = LeastClosed(grammar,
                           {LRItem(grammar.start_symbol, <<grammar.order[1]>>, 0)})
        /\ DOMAIN goto_table =
               UNION { { <<s, X>> : X \in AfterDot(s) } : s \in 0..(Len(states) - 1) }
        /\ \A key \in DOMAIN goto_table :
               /\ goto_table[key] \in 0..(Len(states) - 1)
               /\ states[goto_table[key] + 1] =
                      LeastClosed(grammar, Moved(states[key[1] + 1], key[2]))
        /\ \A i \in DOMAIN states : states[i] # {}
        /\ Within({0}) = 0..(Len(states) - 1)

\* the construction ended with a state that is more than the items moved into it
C29_Witness ==
    /\ pc = "tables"
    /\ Len(states) > 2
    /\ \E key \in DOMAIN goto_table :
           states[goto_table[key] + 1] # Moved(states[key[1] + 1], key[2])

\* the item sets one Goto away from those of C
Successors(g, C) ==
    { LeastClosed(g, Moved(I, X)) :
        <<I, X>> \in UNION { { <<J, next_symbol(item)>> : item \in { it \in J : next_symbol(it) # "" } } :
                             J \in C } }

\* the item sets reached from the closure of the start item by Goto: what the
\* grammar alone determines
RECURSIVE CollectionFrom(_, _)
CollectionFrom(g, C) ==
    IF Successors(g, C) \subseteq C THEN C ELSE CollectionFrom(g, C \cup Successors(g, C))

Collection(g) == CollectionFrom(g, {LeastClosed(g, {StartItem(g)})})

\* goto_table read between item sets instead of indices
GotoBetweenSets ==
    { <<states[key[1] + 1], key[2], states[goto_table[key] + 1]>> : key \in DOMAIN goto_table }

\* C30: whatever the order in which the symbols after the dots of a state are
\* taken, the construction ends with the same set of item sets, so with the
\* same number of states, with the same state 0, and with the same goto
\* relation between item sets: only the indices of the other states differ.
C30_AutomatonOrderIndependent ==
    (pc = "tables") =>
        /\ Range(states) = Collection(grammar)
        /\ Len(states) = Cardinality(Collection(grammar))
        /\ states[1] = LeastClosed(grammar, {StartItem(grammar)})
        /\ GotoBetweenSets =
               { <<I, X, LeastClosed(grammar, Moved(I, X))>> :
                   <<I, X>> \in UNION { { <<J, next_symbol(item)>> :
                                            item \in { it \in J : next_symbol(it) # "" } } :
                                        J \in Collection(grammar) } }

\* the construction ended after state 0 had two symbols to choose between,
\* which lead to different states
C30_Witness ==
    /\ pc = "tables"
    /\ \E X, Y \in AfterDot(0) :
           /\ X # Y
           /\ goto_table[<<0, X>>] # goto_table[<<0, Y>>]
           /\ goto_table[<<0, X>>] # 0
           /\ goto_table[<<0, Y>>] # 0

-----------------------------------------------------------------------------
(* Claims about the order in which the LR tables are filled. *)

\* the cells with a conflict record, each told by the item set of its state
ConflictedCells ==
    { <<states[conflicts[i].state + 1], conflicts[i].symbol>> : i \in DOMAIN conflicts }

\* the cells at which the items of the state are due two different actions
ContestedCells ==
    { <<states[s + 1], X>> :
        <<s, X>> \in { <<t, Y>> \in (0..(Len(states) - 1)) \X grammar.terminals :
                         Cardinality(Due(t, Y)) >= 2 } }

\* C31: whatever the order in which _build_tables visits the items of a
\* state, and whatever indices the construction gave the states, a cell is
\* recorded in conflicts exactly when its state is due two different actions
\* at its symbol; has_conflicts() is True exactly when there is such a cell.
C31_ConflictsOrderIndependent ==
    (pc = "idle") =>
        /\ Range(states) = Collection(grammar)
        /\ ConflictedCells = ContestedCells
        /\ has_conflicts <=> (ContestedCells # {})

\* a parser was built in which a shift found its cell taken by a reduce
C31_Witness ==
    /\ pc = "idle"
    /\ \E i \in DOMAIN conflicts :
           conflicts[i].new.kind = "shift" /\ conflicts[i].existing.kind = "reduce"
    /\ \E i \in DOMAIN conflicts :
           conflicts[i].new.kind = "reduce" /\ conflicts[i].existing.kind = "reduce"

-----------------------------------------------------------------------------
(* Claims about the passes of the FIRST and FOLLOW loops. *)

\* the elements that can enter the sets of a dict with a set per nonterminal:
\* a pass that changes something adds at least one of them
Capacity(g) == Cardinality(g.nonterminals) * (Cardinality(g.terminals) + 1)

\* the dicts at the ends of the passes of the while loop of compute_first_sets
\* begun with `first`, the dict it began with in front; the loop is followed
\* for `fuel` passes after the first
RECURSIVE FirstPasses(_, _, _)
FirstPasses(g, first, fuel) ==
    LET st == FirstPass(Items(g), [first |-> first, changed |-> FALSE])
    IN  IF st.changed /\ fuel > 0
        THEN <<[first |-> first, changed |-> TRUE]>> \o FirstPasses(g, st.first, fuel - 1)
        ELSE <<[first |-> first, changed |-> TRUE], st>>

\* the same for the while loop of compute_follow_sets
RECURSIVE FollowPasses(_, _, _, _)
FollowPasses(g, fs, follow, fuel) ==
    LET st == FollowPass(g, fs, Items(g), [follow |-> follow, changed |-> FALSE])
    IN  IF st.changed /\ fuel > 0
        THEN <<[follow |-> follow, changed |-> TRUE]>>
                 \o FollowPasses(g, fs, st.follow, fuel - 1)
        ELSE <<[follow |-> follow, changed |-> TRUE], st>>

FirstRun(g) == FirstPasses(g, FirstInit(g), Capacity(g))

FollowRun(g) == FollowPasses(g, compute_first_sets(g), FollowInit(g), Capacity(g))

\* every set of dict `later` holds what it held in dict `earlier`
Grown(earlier, later) ==
    /\ DOMAIN later = DOMAIN earlier
    /\ \A s \in DOMAIN earlier : earlier[s] \subseteq later[s]

\* C32: from one pass of the loop of compute_first_sets to the next every
\* set holds what it held and stays within the grammar's terminals and the
\* epsilon marker; the same holds of compute_follow_sets, whose sets stay
\* within the terminals alone.  Both loops end, left-recursive and cyclic
\* grammars included: the pass that changes nothing comes after at most as
\* many passes as there are elements to add, and the dict of that pass is
\* what the function returns.
C32_PassesGrowAndEnd ==
    LET fr == FirstRun(grammar)
        wr == FollowRun(grammar)
    IN  /\ \A k \in 1..(Len(fr) - 1) : Grown(fr[k].first, fr[k + 1].first)
        /\ \A k \in DOMAIN fr : \A s \in DOMAIN fr[k].first :
               fr[k].first[s] \subseteq grammar.terminals \cup {EPS}
        /\ ~ Last(fr).changed
        /\ \A k \in 1..(Len(wr) - 1) : Grown(wr[k].follow, wr[k + 1].follow)
        /\ \A k \in DOMAIN wr : \A s \in DOMAIN wr[k].follow :
               wr[k].follow[s] \subseteq grammar.terminals
        /\ ~ Last(wr).changed
        /\ (pc \in {"first", "follow", "again", "table"}) => first_sets = Last(fr).first
        /\ (pc \in {"follow", "again", "table"}) => follow_sets = Last(wr).follow

\* both functions returned for a left-recursive grammar with an epsilon
\* production, after three passes or more each
C32_Witness ==
    /\ pc = "follow"
    /\ LeftRecursive(grammar)
    /\ \E A \in grammar.nonterminals : EPS \in first_sets[A]
    /\ Len(FirstRun(grammar)) >= 4
    /\ Len(FollowRun(grammar)) >= 4

-----------------------------------------------------------------------------
(* Claims about the input position of BacktrackingParser. *)

\* the trace record "Try <nonterminal>" of the call of _parse_nonterminal
\* that appended record k: calls of one depth do not nest, so it is the last
\* "Try" record of that depth before k
EntryRecord(k) ==
    LET entries == { j \in 1..(k - 1) : trace[j].action = "Try"
                                        /\ trace[j].depth = trace[k].depth }
    IN  trace[CHOOSE j \in entries : \A i \in entries : i <= j]

\* C33: when _parse_nonterminal begins a production ("Try production") and
\* when it reports failure ("Failed", return False) the position is the one
\* the call was entered with, which its "Try" record holds; the position is
\* always between 0 and the number of tokens.
C33_PositionRestored ==
    /\ pos \in 0..Len(tokens)
    /\ (pc = "parsing" /\ trace # <<>>
          /\ Last(trace).action \in {"Try production", "Failed"}) =>
           /\ Last(trace).position = EntryRecord(Len(trace)).position
           /\ Last(trace).nonterminal = EntryRecord(Len(trace)).nonterminal
    /\ (pc = "parsing" /\ ret = "false" /\ trace # <<>> /\ Last(trace).action = "Failed") =>
           pos = Last(trace).position

\* a nonterminal reports failure after one of its productions had moved the
\* position on and a later one was tried, the call having been entered
\* after the first token
C33_Witness ==
    /\ pc = "parsing" /\ ret = "false"
    /\ trace # <<>> /\ Last(trace).action = "Failed"
    /\ Last(trace).position > 0
    /\ \E j \in DOMAIN trace :
          /\ trace[j].action = "Backtrack"
          /\ trace[j].depth = Last(trace).depth
          /\ trace[j].nonterminal = Last(trace).nonterminal
          /\ trace[j - 1].position > trace[j].position
          /\ trace[j + 1].action = "Try production"
          /\ \A i \in j..Len(trace) : trace[i].depth >= Last(trace).depth

-----------------------------------------------------------------------------
(* Claims about the trace of LL1Parser.parse and LRParser.parse. *)

\* the records of tr without what the model keeps of the records after them
Counted(tr) == [i \in DOMAIN tr |-> [tr[i] EXCEPT !.later = 0]]

\* a step of LL1Parser.parse: leaving the loop appends nothing, an iteration
\* appends one record with the stack and tokens[input_ptr:] it began with.
\* Beyond MaxLL1Trace records the model only counts the appended ones.
LL1Appended ==
    IF stack = <<>> THEN trace' = trace
    ELSE IF Len(trace) < MaxLL1Trace
    THEN /\ trace' = Append(trace, Last(trace'))
         /\ Last(trace').stack = stack
         /\ Last(trace').input = From(tokens, input_ptr)
    ELSE /\ Counted(trace') = Counted(trace)
         /\ Last(trace').later = 1 - Last(trace).later

\* a step of LRParser.parse: every iteration appends one record with the
\* stacks and the input position it began with
LRAppended ==
    /\ trace' = Append(trace, Last(trace'))
    /\ Last(trace').state = Last(stack)
    /\ Last(trace').height = Len(stack)
    /\ Last(trace').symbols = Len(symbol_stack)
    /\ Last(trace').input_ptr = input_ptr

-----------------------------------------------------------------------------
(* Claims about the names of the nonterminals the transformations add. *)

\* the texts PrimedGrammars are parsed from
PrimedTexts ==
    { <<"S", "-", ">", "S", "'", "a", "|", "S", "'", "b">>,
      JoinLines(<< <<"S", "-", ">", "S", " ", "a", "|", "b">>,
                   <<"S", "'", "-", ">", "a", " ", "'", "|", "a">> >>),
      <<"'", "-", ">", "'", " ", "a", "|", "b">>,
      JoinLines(<< <<"S", "-", ">", "S", " ", "a", "|", "a", " ", "b", "|", "a">>,
                   <<"S", "'", "-", ">", "a">>,
                   <<"S", "'", "'", "-", ">", "b">> >>) }

\* the keys and the symbols of the bodies of a dict of productions
SymbolsOf(d) ==
    Range(d.order) \cup UNION { UNION { Range(d.productions[nt][i]) :
                                          i \in DOMAIN d.productions[nt] } :
                                  nt \in Range(d.order) }

\* the name the loop of lines 50-53 makes for any key of d is no symbol of d
NamesFresh(d) ==
    \A nt \in Range(d.order) : FreshName(nt \o "'", Range(d.order)) \notin SymbolsOf(d)

\* the grammar a transformation returned has the symbols of the grammar it
\* was given in their old roles, and its further keys are none of them
RolesKept(before, after) ==
    /\ before.nonterminals \subseteq after.nonterminals
    /\ before.terminals \cap after.nonterminals = {}
    /\ (after.nonterminals \ before.nonterminals) \cap SymbolsOf(before) = {}

\* C35: the name made for a new nonterminal by remove_left_recursion, by
\* left_factor and by the augmentation of LRParser is no nonterminal and no
\* terminal of the grammar it is added to, so the symbols of that grammar
\* keep their roles: for the grammars parse_grammar returns (names left of
\* "->" may end in primes, body symbols never do) and for what the
\* transformations make of them.
C35_FreshNamesAreNew ==
    /\ PrimedGrammars = { parse_grammar(t).grammar : t \in PrimedTexts }
    /\ (pc = "idle") => NamesFresh(Dict(grammar))
    /\ (pc = "running") => NamesFresh(productions_copy)
    /\ (pc = "returned") => RolesKept(grammar, transformed)
    /\ (pc = "augmented") =>
           /\ RolesKept(grammar, transformed)
           /\ Cardinality(transformed.nonterminals \ grammar.nonterminals) = 1
           /\ \A nt \in grammar.nonterminals :
                  transformed.productions[nt] = grammar.productions[nt]

\* the name with one prime was a nonterminal already, and a transformation
\* added a nonterminal with a longer name
C35_Witness ==
    /\ pc \in {"returned", "augmented"}
    /\ \E nt \in grammar.nonterminals :
          /\ (nt \o "'") \in grammar.nonterminals
          /\ FreshName(nt \o "'", grammar.nonterminals) \in transformed.nonterminals
    /\ "'" \in grammar.terminals

-----------------------------------------------------------------------------
(* Claims about remove_left_recursion followed by left_factor. *)

\* the grammars remove_left_recursion returns for the grammars of XFInit
LeftRecursionRemoved ==
    { remove_left_recursion(g) : g \in Grammars \cup TransformGrammars \cup PrimedGrammars }

\* left_factor returned for a grammar that remove_left_recursion had returned
PipelineRan ==
    /\ pc = "returned" /\ called = "left_factor"
    /\ grammar \in LeftRecursionRemoved

\* C36: for the grammar left_factor returns when given what
\* remove_left_recursion returned, needs_transformation_for_ll1 is False;
\* and a grammar left_factor returns has an immediately left-recursive
\* production only if the grammar it was given had one.
C36_PipelineFixedPoint ==
    /\ PipelineRan => ~ needs_transformation_for_ll1(transformed)
    /\ (pc = "returned" /\ called = "left_factor") =>
           (ImmediatelyLeftRecursive(transformed) => ImmediatelyLeftRecursive(grammar))

-----------------------------------------------------------------------------
(* Claims about the stacks of LRParser.parse. *)

\* line 204
CurrentToken == IF input_ptr < Len(tokens) THEN tokens[input_ptr + 1] ELSE END

\* the step about to be taken is a reduce
ReducePending ==
    /\ <<Last(stack), CurrentToken>> \in DOMAIN action_table
    /\ action_table[<<Last(stack), CurrentToken>>].kind = "reduce"

\* C37: when a step of LRParser.parse begins, whatever the grammar, the mode
\* and the tokens and also when conflicts left the first action in a cell,
\* the state stack is not empty, state 0 is at its bottom and it is one
\* longer than the symbol stack; a reduce by A -> beta finds at least
\* |beta| + 1 states on it, so the pops and stack[-1] never raise.
C37_LRStackShape ==
    /\ (pc = "parsing") =>
           /\ stack # <<>>
           /\ stack[1] = 0
           /\ Len(stack) = Len(symbol_stack) + 1
           /\ ReducePending =>
                  Len(stack) >= Len(action_table[<<Last(stack), CurrentToken>>].rhs) + 1
    /\ result.message.kind # "raised IndexError"

\* a reduce by a production with two symbols is about to be taken on a stack
\* of three states, with tables that had conflicts
C37_Witness ==
    /\ pc = "parsing"
    /\ conflicts # <<>>
    /\ ReducePending
    /\ Len(action_table[<<Last(stack), CurrentToken>>].rhs) = 2
    /\ Len(stack) = 3


\* the state a pending reduce would leave on top of the stack
Exposed ==
    stack[Len(stack) - Len(action_table[<<Last(stack), CurrentToken>>].rhs)]

\* C38: with the tables the constructor of LRParser built, every reduce by
\* A -> beta leaves on top of the stack a state with a goto_table entry for
\* A, so parse never fails with "no goto".
C38_GotoAfterReduce ==
    /\ (pc = "parsing" /\ ReducePending) =>
           <<Exposed, action_table[<<Last(stack), CurrentToken>>].lhs>> \in DOMAIN goto_table
    /\ result.message.kind # "Parse error: no goto"
    /\ \A i \in DOMAIN trace : trace[i].action # "Reduce (Error: no goto)"

\* a reduce was taken that left a state other than 0 on top, and the goto
\* entry of that state was followed
C38_Witness ==
    /\ pc = "parsing"
    /\ trace # <<>> /\ Last(trace).action = "Reduce"
    /\ Len(stack) >= 3
    /\ <<stack[Len(stack) - 1], Last(symbol_stack)>> \in DOMAIN goto_table
    /\ goto_table[<<stack[Len(stack) - 1], Last(symbol_stack)>>] = Last(stack)
    /\ stack[Len(stack) - 1] # 0

-----------------------------------------------------------------------------
(* Claims about what BacktrackingParser accepts. *)

\* C39: for a grammar without left recursion, BacktrackingParser.parse
\* returns success for every token list derivable from the start symbol
\* (the lists of the model are derived with far fewer than max_depth nested
\* nonterminals), also when an alternative matching a shorter prefix stands
\* before the alternative that matches the whole list.
C39_BTComplete ==
    (pc = "returned" /\ ~ LeftRecursive(grammar) /\ tokens \in Language(grammar)) =>
        result.success

-----------------------------------------------------------------------------
(* LL1Parser and LRParser ("SLR(1)") built for one grammar and run on the   *)
(* same tokens.  LRParser is the state machine of SpecLR begun in mode      *)
(* "SLR(1)"; LL1Parser.parse is followed as a function of the token list.   *)

\* LL1Parser.parse: the iterations followed before a parse is given up
MaxLL1Run == 40

\* lines 67-117 from a stack and an input position on: "accept" for
\* (True, trace, None), "reject" for the three error returns
RECURSIVE LL1Run(_, _, _, _, _, _)
LL1Run(g, table, toks, stk, ptr, fuel) ==
    IF stk = <<>> THEN "accept"
    ELSE IF fuel = 0 THEN "cut"
    ELSE LET top     == Last(stk)
             current == IF ptr < Len(toks) THEN toks[ptr + 1] ELSE END
             popped  == SubSeq(stk, 1, Len(stk) - 1)
         IN  IF top = current
             THEN LL1Run(g, table, toks, popped, ptr + 1, fuel - 1)
             ELSE IF is_terminal(g, top) THEN "reject"
             ELSE IF is_nonterminal(g, top)
             THEN IF <<top, current>> \notin DOMAIN table THEN "reject"
                  ELSE LL1Run(g, table, toks,
                              popped \o Reverse(table[<<top, current>>][1]), ptr, fuel - 1)
             ELSE "reject"

\* the grammars both parsers are built for
CmpGrammars ==
    { \* S -> ε a                         (parse_grammar keeps the word ε of "ε a")
      Grammar(<<"S">>, [S |-> << <<EPS, "a">> >>], ""),
      \* S -> ε | A ; A -> ε a
      G2(<< <<>>, <<"A">> >>, << <<EPS, "a">> >>),
      \* S -> a S b | ε
      Grammar(<<"S">>, [S |-> << <<"a", "S", "b">>, <<>> >>], ""),
      \* S -> A b ; A -> a | ε
      G2(<< <<"A", "b">> >>, << <<"a">>, <<>> >>),
      \* S -> a | b S
      Grammar(<<"S">>, [S |-> << <<"a">>, <<"b", "S">> >>], ""),
      \* S -> A a | b ; A -> A b           (A derives nothing)
      G2(<< <<"A", "a">>, <<"b">> >>, << <<"A", "b">> >>),
      \* S -> S a | b                      (not LL(1))
      Grammar(<<"S">>, [S |-> << <<"S", "a">>, <<"b">> >>], ""),
      \* S -> a b | a                      (not LL(1))
      Grammar(<<"S">>, [S |-> << <<"a", "b">>, <<"a">> >>], "") }

\* the token lists: "$" at the end or nowhere
CmpTokenLists ==
    LET plain == UNION { [1..k -> {"a", "b", EPS}] : k \in 0..MaxTokens }
    IN  plain \cup { Append(t, END) : t \in plain }

CmpInit == \E g \in CmpGrammars : LRConstruct(g, "SLR(1)")

CmpBegin == \E toks \in CmpTokenLists : LREnter(toks)

CmpNext ==
    LRAutoPop \/ LRAutoGoto \/ LRBuildTables \/ LRTableItem \/ CmpBegin \/ LRStep

SpecCmp == CmpInit /\ [][CmpNext]_vars

\* the grammar the LRParser was given: the augmented one without the key
\* the augmentation appended
Given ==
    LET order == SubSeq(grammar.order, 1, Len(grammar.order) - 1)
    IN  Grammar(order, [nt \in Range(order) |-> grammar.productions[nt]],
                grammar.productions[grammar.start_symbol][1][1])

\* LL1Parser(g).parsing_table
LL1Table(g) ==
    _build_parsing_table(g, compute_first_sets(g),
                         compute_follow_sets(g, compute_first_sets(g)))

\* LL1Parser(g).is_ll1()
LL1Clean(g) == _detect_conflicts(g, compute_first_sets(g), LL1Table(g)) = { <<>> }

\* LL1Parser(g).parse(toks) returns success
LL1Accepts(g, toks) ==
    LL1Run(g, LL1Table(g), WithEndMarker(toks), <<END, g.start_symbol>>, 0, MaxLL1Run)
        = "accept"

\* the list without the end marker at its end
WithoutEndMarker(toks) ==
    IF toks # <<>> /\ Last(toks) = END THEN SubSeq(toks, 1, Len(toks) - 1) ELSE toks

\* both parsers were built without conflicts and LRParser.parse returned
BothBuilt ==
    /\ pc = "returned"
    /\ ~ has_conflicts
    /\ LL1Clean(Given)

\* C40: for a grammar with is_ll1() True and no SLR(1) conflict, on every
\* token list with "$" at its end or nowhere, LL1Parser.parse returns
\* success exactly when LRParser.parse does, and (where no body holds the
\* word ε, which a derivation could read in two ways) exactly for the lists
\* derivable from the start symbol.
C40_LL1AndSLRAgree ==
    BothBuilt =>
        /\ LL1Accepts(Given, passed_tokens) <=> result.success
        /\ (EPS \notin BodySymbols(Given)) =>
               (result.success <=> WithoutEndMarker(passed_tokens) \in Language(Given))

=============================================================================
